---- MODULE Spec2Model ----
(***************************************************************************)
(* A model of pkg/uri (uri.h, uri.c): the RFC 3986 production matchers,    *)
(* the bURI record they populate, the percent codec and the serializer.    *)
(*                                                                         *)
(* A C string is a sequence of byte values 1..255; the terminating NUL is  *)
(* the position Len(s)+1, where Ch reads 0.  A cursor into the text is an  *)
(* index 1..Len(s)+1 into the text.  A char* field of the record is a      *)
(* pointer value: null, live (owning a string), or freed, the value        *)
(* 0xeeeeeeee that the FREE macro leaves behind.                           *)
(***************************************************************************)
EXTENDS Integers, Sequences, FiniteSets, TLC

VARIABLES
    uri,        \* the bURI record the last call was given or created
    text,       \* the text argument of the last call: a pointer value
    arg,        \* its second argument: raw (parse_raw), len (unescape), list (escape)
    status,     \* the int the last call returned
    inner,      \* the status of the minio_uri_parse_into it made
    ptr,        \* the record pointer the caller holds: "null", "live", "freed"
    stop,       \* the cursor of the top-level grammar whose status was returned
    res,        \* the string the last call returned: a pointer value
    op,         \* the last call
    crashed,    \* the process was stopped by a free() of 0xeeeeeeee or a read through it
    calls,      \* the number of parse calls made with this record
    bad,        \* free() calls made on 0xeeeeeeee so far
    charSigned, \* whether the build's plain char is signed
    uri2,       \* the record of the re-parse of a serialized record
    status2,    \* the status of that re-parse
    oom,        \* the allocations of the last call that returned NULL
    nullw,      \* the writes the last call made through a null pointer
    outLen,     \* len of minio_uri_to_string when it last ended: the bytes written
    outMax      \* max of minio_uri_to_string when it last ended: the buffer's size

vars == <<uri, text, arg, status, inner, ptr, stop, res, op, crashed, calls, bad,
          charSigned, uri2, status2, oom, nullw, outLen, outMax>>

(***************************************************************************)
(* Bounds of the model.                                                    *)
(***************************************************************************)
MaxLen == 3

MaxCalls == 2

MaxReuseLen == 2

MaxBytes == 3
\* The longest authority of the enumerated authority texts.
MaxAuthorityLen == 4
\* The doublings of the serializer's 80-byte buffer that the longest
\* serialized path takes.
MaxDoublings == 14
\* The longest text a production matcher is applied to on its own.
MaxMatchLen == 3
\* The longest digit run given to the dec-octet matcher.
MaxDigits == 3

(***************************************************************************)
(* Characters, by their ASCII code.                                        *)
(***************************************************************************)
ch == [nul |-> 0, sp |-> 32, bang |-> 33, hash |-> 35, dollar |-> 36,
       pct |-> 37, amp |-> 38, apos |-> 39, lpar |-> 40, rpar |-> 41,
       star |-> 42, plus |-> 43, comma |-> 44, minus |-> 45, dot |-> 46,
       slash |-> 47, d0 |-> 48, d1 |-> 49, d2 |-> 50, d4 |-> 52, d5 |-> 53,
       d8 |-> 56, d9 |-> 57, colon |-> 58, semi |-> 59, eq |-> 61, qm |-> 63,
       at |-> 64, A |-> 65, F |-> 70, Z |-> 90, lbr |-> 91, bsl |-> 92,
       rbr |-> 93, caret |-> 94, us |-> 95, btick |-> 96, a |-> 97,
       b |-> 98, e |-> 101, f |-> 102, h |-> 104, i |-> 105, l |-> 108,
       p |-> 112, t |-> 116, x |-> 120, z |-> 122, lbrace |-> 123,
       bar |-> 124, rbrace |-> 125, tilde |-> 126]

\* *(p): the byte under the cursor; the terminating NUL past the last byte.
Ch(s, i) == IF i >= 1 /\ i <= Len(s) THEN s[i] ELSE 0

\* The C string that starts at cursor i of s.
From(s, i) == SubSeq(s, i, Len(s))

(***************************************************************************)
(* Character classes of uri.h.                                             *)
(***************************************************************************)
IS_LOWALPHA(c) == c >= ch.a /\ c <= ch.z

IS_UPALPHA(c) == c >= ch.A /\ c <= ch.Z

IS_ALPHA(c) == IS_LOWALPHA(c) \/ IS_UPALPHA(c)

IS_DIGIT(c) == c >= ch.d0 /\ c <= ch.d9

IS_ALPHANUM(c) == IS_ALPHA(c) \/ IS_DIGIT(c)

IS_MARK(c) == c \in {ch.minus, ch.us, ch.dot, ch.bang, ch.tilde, ch.star,
                     ch.apos, ch.lpar, ch.rpar}

IS_UNWISE(c) == c \in {ch.lbrace, ch.rbrace, ch.bar, ch.bsl, ch.caret,
                       ch.lbr, ch.rbr, ch.btick}

IS_RESERVED(c) == c \in {ch.semi, ch.slash, ch.qm, ch.colon, ch.at, ch.amp,
                         ch.eq, ch.plus, ch.dollar, ch.comma, ch.lbr, ch.rbr}

IS_UNRESERVED(c) == IS_ALPHANUM(c) \/ IS_MARK(c)

ISA_DIGIT(s, i) == Ch(s, i) >= ch.d0 /\ Ch(s, i) <= ch.d9

ISA_ALPHA(s, i) == \/ (Ch(s, i) >= ch.a /\ Ch(s, i) <= ch.z)
                   \/ (Ch(s, i) >= ch.A /\ Ch(s, i) <= ch.Z)

is_hex(c) == \/ (c >= ch.d0 /\ c <= ch.d9)
             \/ (c >= ch.a /\ c <= ch.f)
             \/ (c >= ch.A /\ c <= ch.F)

ISA_HEXDIG(s, i) == \/ ISA_DIGIT(s, i)
                    \/ (Ch(s, i) >= ch.a /\ Ch(s, i) <= ch.f)
                    \/ (Ch(s, i) >= ch.A /\ Ch(s, i) <= ch.F)

ISA_SUB_DELIM(s, i) == Ch(s, i) \in {ch.bang, ch.dollar, ch.amp, ch.lpar,
                                     ch.rpar, ch.star, ch.plus, ch.comma,
                                     ch.semi, ch.eq, ch.apos}

ISA_UNRESERVED(s, i) == \/ ISA_ALPHA(s, i)
                        \/ ISA_DIGIT(s, i)
                        \/ Ch(s, i) \in {ch.minus, ch.dot, ch.us, ch.tilde}

\* ISA_PCT_ENCODED that reads *(p + 2) without having tested *(p + 1).
ISA_PCT_ENCODED_SecondDigitOnly(s, i) == /\ Ch(s, i) = ch.pct
                                         /\ ISA_HEXDIG(s, i + 2)

ISA_PCT_ENCODED(s, i) == /\ Ch(s, i) = ch.pct
                         /\ ISA_HEXDIG(s, i + 1)
                         /\ ISA_HEXDIG(s, i + 2)

ISA_PCHAR(s, i) == \/ ISA_UNRESERVED(s, i)
                   \/ ISA_PCT_ENCODED(s, i)
                   \/ ISA_SUB_DELIM(s, i)
                   \/ Ch(s, i) = ch.colon
                   \/ Ch(s, i) = ch.at

\* NEXT(p): one step of the cursor, three bytes for a '%'.
NEXT(s, i) == IF Ch(s, i) = ch.pct THEN i + 3 ELSE i + 1

\* The cursors ISA_PCT_ENCODED(p) reads: p + 1 when *p is '%', p + 2 when
\* *(p + 1) is a hex digit too.
PctEncodedReads(s, p) ==
    {p} \cup (IF Ch(s, p) # ch.pct THEN {}
              ELSE {p + 1} \cup (IF ISA_HEXDIG(s, p + 1) THEN {p + 2} ELSE {}))

\* The cursors the test of "//" at cur reads.
DoubleSlashReads(s, cur) ==
    {cur} \cup (IF Ch(s, cur) = ch.slash THEN {cur + 1} ELSE {})

\* The widest test under which a loop steps its cursor with NEXT: that of
\* the fragment loop for a permissive record.
StepsWithNEXT(s, cur) ==
    \/ ISA_PCHAR(s, cur)
    \/ Ch(s, cur) \in {ch.slash, ch.qm, ch.lbr, ch.rbr}
    \/ IS_UNWISE(Ch(s, cur))

(***************************************************************************)
(* Pointer values.                                                         *)
(***************************************************************************)
NullP == [k |-> "null", v |-> <<>>]

FreedP == [k |-> "freed", v |-> <<>>]

Live(s) == [k |-> "live", v |-> s]

\* The bytes of a buffer up to its first NUL: the buffer read as a C string.
RECURSIVE CStr(_)
CStr(buf) == IF buf = <<>> \/ Head(buf) = 0 THEN <<>>
             ELSE <<Head(buf)>> \o CStr(From(buf, 2))

\* strndup(str, n)
strndup(str, n) == SubSeq(str, 1, IF n < Len(str) THEN n ELSE Len(str))

(***************************************************************************)
(* The percent codec.                                                      *)
(***************************************************************************)
HexVal(c) == IF c >= ch.d0 /\ c <= ch.d9 THEN c - ch.d0
             ELSE IF c >= ch.a /\ c <= ch.f THEN (c - ch.a) + 10
             ELSE IF c >= ch.A /\ c <= ch.F THEN (c - ch.A) + 10
             ELSE 0

\* The same loop without the test len > 2: an escape is decoded whether or
\* not its digits lie within the len bytes.
RECURSIVE UnescapeLoop_NoLenTest(_, _, _)
UnescapeLoop_NoLenTest(str, in, len) ==
    IF len <= 0 THEN <<>>
    ELSE IF /\ Ch(str, in) = ch.pct
            /\ is_hex(Ch(str, in + 1))
            /\ is_hex(Ch(str, in + 2))
         THEN <<(HexVal(Ch(str, in + 1)) * 16 + HexVal(Ch(str, in + 2))) % 256>>
              \o UnescapeLoop_NoLenTest(str, in + 3, len - 3)
         ELSE <<Ch(str, in)>> \o UnescapeLoop_NoLenTest(str, in + 1, len - 1)

\* The while(len > 0) loop of minio_uri_string_unescape: the bytes written
\* to out, reading str from position in with len bytes left.
RECURSIVE UnescapeLoop(_, _, _)
UnescapeLoop(str, in, len) ==
    IF len <= 0 THEN <<>>
    ELSE IF /\ len > 2
            /\ Ch(str, in) = ch.pct
            /\ is_hex(Ch(str, in + 1))
            /\ is_hex(Ch(str, in + 2))
         THEN <<(HexVal(Ch(str, in + 1)) * 16 + HexVal(Ch(str, in + 2))) % 256>>
              \o UnescapeLoop(str, in + 3, len - 3)
         ELSE <<Ch(str, in)>> \o UnescapeLoop(str, in + 1, len - 1)

\* minio_uri_string_unescape(str, len, NULL) for a non-null str: the
\* returned C string.  len <= 0 stands for the whole string.
minio_uri_string_unescape(str, len) ==
    CStr(UnescapeLoop(str, 1, IF len <= 0 THEN Len(str) ELSE len))

HexDigit(v) == IF v <= 9 THEN ch.d0 + v ELSE ch.A + v - 10

\* val = ch >> 4 of minio_uri_string_escape, ch a plain char holding byte
\* c: with a signed char a byte above 127 is negative and the arithmetic
\* shift keeps the sign, so the unsigned char val is 240 + c/16.
EscapeHi(c, sgn) == IF sgn /\ c >= 128 THEN (c \div 16) + 240 ELSE c \div 16

\* The character stored for a nibble value val (unsigned char): stored
\* into a char, so taken modulo 256.
EscapeDigit(val) == IF val <= 9 THEN ch.d0 + val ELSE (ch.A + val - 10) % 256

\* The bytes minio_uri_string_escape copies verbatim: '@', the unreserved
\* characters and the members of list (strchr(list, ch)).
EscapeKeeps(c, list) ==
    \/ c = ch.at
    \/ IS_UNRESERVED(c)
    \/ \E j \in 1..Len(list) : list[j] = c

RECURSIVE EscapeLoop(_, _, _, _)
EscapeLoop(str, in, list, sgn) ==
    IF Ch(str, in) = 0 THEN <<>>
    ELSE LET c == Ch(str, in)
         IN  IF ~EscapeKeeps(c, list)
             THEN <<ch.pct, EscapeDigit(EscapeHi(c, sgn)), EscapeDigit(c % 16)>>
                  \o EscapeLoop(str, in + 1, list, sgn)
             ELSE <<c>> \o EscapeLoop(str, in + 1, list, sgn)

\* minio_uri_string_escape(str, list) for non-null arguments, on a build
\* whose plain char is signed (sgn) or unsigned.
minio_uri_string_escape(str, list, sgn) ==
    IF str = <<>> THEN <<>> ELSE CStr(EscapeLoop(str, 1, list, sgn))

(***************************************************************************)
(* The bURI record and the release macros of uri.h.                        *)
(***************************************************************************)
\* minio_uri_new: malloc and memset(0) of a bURI.
minio_uri_new == [scheme |-> NullP, opaque |-> NullP, authority |-> NullP,
                  server |-> NullP, user |-> NullP, port |-> 0,
                  path |-> NullP, fragment |-> NullP, cleanup |-> 0,
                  query |-> NullP, query_raw |-> NullP]

\* The parser's view of its sink: the record (uri), whether the bURI pointer
\* is non-null (sink), the number of free() calls made on the value
\* 0xeeeeeeee (bad) and on live values (frees), whether malloc and strndup
\* return NULL during the call (oom), the allocations that did (failed) and
\* the buffers written through a null pointer (nullw).
Ctx(u, sink) == [uri |-> u, sink |-> sink, bad |-> 0, frees |-> 0,
                 oom |-> FALSE, failed |-> 0, nullw |-> 0]

\* The same call made when the heap is exhausted.
CtxOom(u, sink) == [Ctx(u, sink) EXCEPT !.oom = TRUE]

\* free(uri->f) of a non-null field, without the assignment that follows.
FreeCount(x, fld) ==
    [x EXCEPT !.bad = @ + (IF x.uri[fld].k = "freed" THEN 1 ELSE 0),
              !.frees = @ + (IF x.uri[fld].k = "live" THEN 1 ELSE 0)]

\* FREE(uri->f): a non-null value is passed to free() and the field is set
\* to (void *)0xeeeeeeee.
FREE(x, fld) ==
    IF x.uri[fld].k = "null" THEN x
    ELSE [FreeCount(x, fld) EXCEPT !.uri[fld] = FreedP]

\* URI_TRIM(uri): FREE of eight fields in the order of the macro; query_raw
\* and port are not among them.
URI_TRIM(x) ==
    IF ~x.sink THEN x
    ELSE FREE(FREE(FREE(FREE(FREE(FREE(FREE(FREE(x,
             "scheme"), "server"), "user"), "path"), "fragment"),
             "opaque"), "authority"), "query")

\* if (uri->f != NULL) free(uri->f); uri->f = p;
Store(x, fld, p) ==
    IF x.uri[fld].k = "null" THEN [x EXCEPT !.uri[fld] = p]
    ELSE [FreeCount(x, fld) EXCEPT !.uri[fld] = p]

RawMode(x) == (x.uri.cleanup \div 2) % 2 = 1

Permissive(x) == x.uri.cleanup % 2 = 1

\* The pointer strndup returns for the string v: NULL when it cannot
\* allocate.
Dup(x, v) == IF x.oom THEN NullP ELSE Live(v)

\* The sink after a strndup: a failed allocation is counted.
AllocFails(x) == IF x.oom THEN [x EXCEPT !.failed = @ + 1] ELSE x

\* The value a matcher installs for the bytes from..to-1 of the text:
\* strndup in raw mode, else minio_uri_string_unescape(*str, cur - *str, NULL)
\* called on the text from position from, which returns its malloc'ed
\* buffer: NULL when malloc failed.
Capture(x, s, from, to) ==
    IF RawMode(x) THEN Dup(x, strndup(From(s, from), to - from))
    ELSE IF x.oom THEN NullP
    ELSE Live(minio_uri_string_unescape(From(s, from), to - from))

\* The sink after that capture: a failed allocation is counted, and outside
\* raw mode minio_uri_string_unescape has written the bytes and the NUL
\* through the NULL that malloc returned.
CaptureFails(x) ==
    IF ~x.oom THEN x
    ELSE [x EXCEPT !.failed = @ + 1,
                   !.nullw = @ + (IF RawMode(x) THEN 0 ELSE 1)]

(***************************************************************************)
(* The production matchers.  Each returns its status (ret), the cursor it  *)
(* leaves in *str (cur) and the sink (x).                                  *)
(***************************************************************************)
Out(r, c, x) == [ret |-> r, cur |-> c, x |-> x]

RECURSIVE SchemeLoop(_, _)
SchemeLoop(s, cur) ==
    IF \/ ISA_ALPHA(s, cur)
       \/ ISA_DIGIT(s, cur)
       \/ Ch(s, cur) \in {ch.plus, ch.minus, ch.dot}
    THEN SchemeLoop(s, cur + 1)
    ELSE cur

minio_rfc3986_scheme(x, s, str) ==
    LET Matched(cur) ==
            Out(0, cur,
                IF x.sink
                THEN Store(AllocFails(x), "scheme",
                           Dup(x, strndup(From(s, str), cur - str)))
                ELSE x)
    IN  IF ~ISA_ALPHA(s, str) THEN Out(2, str, x)
        ELSE Matched(SchemeLoop(s, str + 1))

\* FragmentLoop that takes the unwise bytes for any record given, whatever
\* its cleanup bits.
RECURSIVE FragmentLoop_UnwiseForAnyRecord(_, _, _)
FragmentLoop_UnwiseForAnyRecord(x, s, cur) ==
    IF \/ ISA_PCHAR(s, cur)
       \/ Ch(s, cur) \in {ch.slash, ch.qm, ch.lbr, ch.rbr}
       \/ (x.sink /\ IS_UNWISE(Ch(s, cur)))
    THEN FragmentLoop_UnwiseForAnyRecord(x, s, NEXT(s, cur))
    ELSE cur

RECURSIVE FragmentLoop(_, _, _)
FragmentLoop(x, s, cur) ==
    IF \/ ISA_PCHAR(s, cur)
       \/ Ch(s, cur) \in {ch.slash, ch.qm, ch.lbr, ch.rbr}
       \/ (x.sink /\ Permissive(x) /\ IS_UNWISE(Ch(s, cur)))
    THEN FragmentLoop(x, s, NEXT(s, cur))
    ELSE cur

minio_rfc3986_fragment(x, s, str) ==
    LET Matched(cur) ==
            Out(0, cur,
                IF x.sink
                THEN Store(CaptureFails(x), "fragment", Capture(x, s, str, cur))
                ELSE x)
    IN  Matched(FragmentLoop(x, s, str))

RECURSIVE QueryLoop(_, _, _)
QueryLoop(x, s, cur) ==
    IF \/ ISA_PCHAR(s, cur)
       \/ Ch(s, cur) \in {ch.slash, ch.qm}
       \/ (x.sink /\ Permissive(x) /\ IS_UNWISE(Ch(s, cur)))
    THEN QueryLoop(x, s, NEXT(s, cur))
    ELSE cur

minio_rfc3986_query(x, s, str) ==
    LET Matched(cur) ==
            Out(0, cur,
                IF x.sink
                THEN Store(AllocFails(Store(CaptureFails(x), "query",
                                            Capture(x, s, str, cur))),
                           "query_raw", Dup(x, strndup(From(s, str), cur - str)))
                ELSE x)
    IN  Matched(QueryLoop(x, s, str))

\* The digit loop of minio_rfc3986_port: the cursor after the digits and
\* the accumulated value.  (No text of the model is long enough to
\* overflow the int.)
RECURSIVE PortLoop(_, _, _)
PortLoop(s, cur, acc) ==
    IF ISA_DIGIT(s, cur)
    THEN PortLoop(s, cur + 1, acc * 10 + (Ch(s, cur) - ch.d0))
    ELSE [cur |-> cur, port |-> acc]

minio_rfc3986_port(x, s, str) ==
    LET Matched(r) ==
            Out(0, r.cur, IF x.sink THEN [x EXCEPT !.uri.port = r.port] ELSE x)
    IN  IF ISA_DIGIT(s, str) THEN Matched(PortLoop(s, str, 0))
        ELSE Out(1, str, x)

RECURSIVE UserInfoLoop(_, _)
UserInfoLoop(s, cur) ==
    IF \/ ISA_UNRESERVED(s, cur)
       \/ ISA_PCT_ENCODED(s, cur)
       \/ ISA_SUB_DELIM(s, cur)
       \/ Ch(s, cur) = ch.colon
    THEN UserInfoLoop(s, NEXT(s, cur))
    ELSE cur

minio_rfc3986_user_info(x, s, str) ==
    LET Matched(cur) ==
            IF Ch(s, cur) = ch.at
            THEN Out(0, cur,
                     IF x.sink
                     THEN Store(CaptureFails(x), "user", Capture(x, s, str, cur))
                     ELSE x)
            ELSE Out(1, str, x)
    IN  Matched(UserInfoLoop(s, str))

\* minio_rfc3986_dec_octet: status and cursor.
minio_rfc3986_dec_octet(s, cur) ==
    IF ~ISA_DIGIT(s, cur) THEN [ret |-> 1, cur |-> cur]
    ELSE IF ~ISA_DIGIT(s, cur + 1) THEN [ret |-> 0, cur |-> cur + 1]
    ELSE IF /\ Ch(s, cur) # ch.d0
            /\ ISA_DIGIT(s, cur + 1)
            /\ ~ISA_DIGIT(s, cur + 2)
         THEN [ret |-> 0, cur |-> cur + 2]
    ELSE IF /\ Ch(s, cur) = ch.d1
            /\ ISA_DIGIT(s, cur + 1)
            /\ ISA_DIGIT(s, cur + 2)
         THEN [ret |-> 0, cur |-> cur + 3]
    ELSE IF /\ Ch(s, cur) = ch.d2
            /\ Ch(s, cur + 1) >= ch.d0
            /\ Ch(s, cur + 1) <= ch.d4
            /\ ISA_DIGIT(s, cur + 2)
         THEN [ret |-> 0, cur |-> cur + 3]
    ELSE IF /\ Ch(s, cur) = ch.d2
            /\ Ch(s, cur + 1) = ch.d5
            /\ Ch(s, cur + 2) >= ch.d0
            /\ Ch(s, cur + 1) <= ch.d5
         THEN [ret |-> 0, cur |-> cur + 3]
    ELSE [ret |-> 1, cur |-> cur]

\* The cursors minio_rfc3986_dec_octet reads: cur + 1 after a digit, cur + 2
\* after two digits of which the first is not '0'.
DecOctetReads(s, cur) ==
    {cur} \cup (IF ~ISA_DIGIT(s, cur) THEN {}
                ELSE {cur + 1} \cup
                     (IF ISA_DIGIT(s, cur + 1) /\ Ch(s, cur) # ch.d0
                      THEN {cur + 2} ELSE {}))

RECURSIVE BracketLoop(_, _)
BracketLoop(s, cur) ==
    IF Ch(s, cur) # ch.rbr /\ Ch(s, cur) # 0 THEN BracketLoop(s, cur + 1)
    ELSE cur

\* HostIPv4 whose failure ends the host where the attempt stopped: no
\* return to the start of the host for reg-name matching.
HostIPv4_NoFallback(s, str) ==
    LET Octet2(o2) == [found |-> TRUE, cur |-> o2.cur]
        Octet1(o1) == IF o1.ret # 0 THEN [found |-> TRUE, cur |-> o1.cur]
                      ELSE IF Ch(s, o1.cur) # ch.dot
                           THEN [found |-> TRUE, cur |-> o1.cur]
                      ELSE Octet2(minio_rfc3986_dec_octet(s, o1.cur + 1))
    IN  Octet1(minio_rfc3986_dec_octet(s, str))

\* The dotted-quad attempt of minio_rfc3986_host: found tells whether the
\* found label was reached, cur the cursor there.  The cursor is stepped
\* over the first '.' only.
HostIPv4(s, str) ==
    LET no == [found |-> FALSE, cur |-> str]
        Octet4(o4) == IF o4.ret # 0 THEN no ELSE [found |-> TRUE, cur |-> o4.cur]
        Octet3(o3) == IF o3.ret # 0 THEN no
                     ELSE IF Ch(s, o3.cur) # ch.dot THEN no
                     ELSE Octet4(minio_rfc3986_dec_octet(s, o3.cur))
        Octet2(o2) == IF o2.ret # 0 THEN no
                      ELSE IF Ch(s, o2.cur) # ch.dot THEN no
                      ELSE Octet3(minio_rfc3986_dec_octet(s, o2.cur))
        Octet1(o1) == IF o1.ret # 0 THEN no
                     ELSE IF Ch(s, o1.cur) # ch.dot THEN no
                     ELSE Octet2(minio_rfc3986_dec_octet(s, o1.cur + 1))
    IN  Octet1(minio_rfc3986_dec_octet(s, str))

RECURSIVE RegNameLoop(_, _)
RegNameLoop(s, cur) ==
    IF \/ ISA_UNRESERVED(s, cur)
       \/ ISA_PCT_ENCODED(s, cur)
       \/ ISA_SUB_DELIM(s, cur)
    THEN RegNameLoop(s, NEXT(s, cur))
    ELSE cur

\* The found label of minio_rfc3986_host: authority is released and set to
\* NULL, server is released and set to the captured host or to NULL.
HostFound(x, s, host, cur) ==
    LET Server(x1) ==
            IF cur # host
            THEN Store(CaptureFails(x1), "server", Capture(x1, s, host, cur))
            ELSE Store(x1, "server", NullP)
    IN  IF ~x.sink THEN Out(0, cur, x)
        ELSE Out(0, cur, Server(Store(x, "authority", NullP)))

\* minio_rfc3986_host with a bracketed host that needs no closing ']'.
minio_rfc3986_host_BracketOpen(x, s, str) ==
    LET Bracket(cur) == HostFound(x, s, str, cur)
        Name(v4) == HostFound(x, s, str,
                              IF v4.found THEN v4.cur ELSE RegNameLoop(s, str))
    IN  IF Ch(s, str) = ch.lbr THEN Bracket(BracketLoop(s, str + 1))
        ELSE Name(IF ISA_DIGIT(s, str) THEN HostIPv4(s, str)
                  ELSE [found |-> FALSE, cur |-> str])

minio_rfc3986_host(x, s, str) ==
    LET Bracket(cur) == IF Ch(s, cur) # ch.rbr THEN Out(1, str, x)
                        ELSE HostFound(x, s, str, cur + 1)
        Name(v4) == HostFound(x, s, str,
                              IF v4.found THEN v4.cur ELSE RegNameLoop(s, str))
    IN  IF Ch(s, str) = ch.lbr THEN Bracket(BracketLoop(s, str + 1))
        ELSE Name(IF ISA_DIGIT(s, str) THEN HostIPv4(s, str)
                  ELSE [found |-> FALSE, cur |-> str])

\* minio_rfc3986_authority with the cursor left where the userinfo run
\* ended, whether or not an '@' ended it.
minio_rfc3986_authority_UserRunKept(x, s, str) ==
    LET Port(po) == IF po.ret # 0 THEN Out(1, str, po.x)
                    ELSE Out(0, po.cur, po.x)
        Host(ho) == IF ho.ret # 0 THEN Out(1, str, ho.x)
                    ELSE IF Ch(s, ho.cur) = ch.colon
                         THEN Port(minio_rfc3986_port(ho.x, s, ho.cur + 1))
                    ELSE Out(0, ho.cur, ho.x)
    IN  Host(minio_rfc3986_host(x, s, UserInfoLoop(s, str)))

minio_rfc3986_authority(x, s, str) ==
    LET Port(po) == IF po.ret # 0 THEN Out(1, str, po.x)
                    ELSE Out(0, po.cur, po.x)
        Host(ho) == IF ho.ret # 0 THEN Out(1, str, ho.x)
                    ELSE IF Ch(s, ho.cur) = ch.colon
                         THEN Port(minio_rfc3986_port(ho.x, s, ho.cur + 1))
                    ELSE Out(0, ho.cur, ho.x)
        User(ui) == Host(minio_rfc3986_host(ui.x, s,
                        IF ui.ret # 0 \/ Ch(s, ui.cur) # ch.at THEN str
                        ELSE ui.cur + 1))
    IN  User(minio_rfc3986_user_info(x, s, str))

RECURSIVE SegmentLoop(_, _, _)
SegmentLoop(s, cur, forbid) ==
    IF ISA_PCHAR(s, cur) /\ Ch(s, cur) # forbid
    THEN SegmentLoop(s, NEXT(s, cur), forbid)
    ELSE cur

\* minio_rfc3986_segment: status and cursor.
minio_rfc3986_segment(s, str, forbid, empty) ==
    IF ~ISA_PCHAR(s, str)
    THEN [ret |-> IF empty THEN 0 ELSE 1, cur |-> str]
    ELSE [ret |-> 0, cur |-> SegmentLoop(s, str, forbid)]

\* while (*cur == '/') { cur++; segment(&cur, 0, 1); }: a segment that may
\* be empty never fails, so the loop ends at the first byte that is no '/'.
RECURSIVE SegmentsLoop(_, _)
SegmentsLoop(s, cur) ==
    IF Ch(s, cur) = ch.slash
    THEN SegmentsLoop(s, minio_rfc3986_segment(s, cur + 1, 0, TRUE).cur)
    ELSE cur

\* The tail shared by the four path matchers: path is released and set to
\* the captured bytes str..cur-1, or to NULL when there are none.
StorePath(x, s, str, cur) ==
    IF ~x.sink THEN x
    ELSE IF cur # str
         THEN Store(CaptureFails(x), "path", Capture(x, s, str, cur))
         ELSE Store(x, "path", NullP)

minio_rfc3986_path_ab_empty(x, s, str) ==
    LET Matched(cur) == Out(0, cur, StorePath(x, s, str, cur))
    IN  Matched(SegmentsLoop(s, str))

\* The status of the first segment is also the status returned, after the
\* path has been stored and *str advanced.
minio_rfc3986_path_absolute(x, s, str) ==
    LET Matched(ret, cur) == Out(ret, cur, StorePath(x, s, str, cur))
        Segment(sg) == Matched(sg.ret, IF sg.ret = 0 THEN SegmentsLoop(s, sg.cur)
                                     ELSE sg.cur)
    IN  IF Ch(s, str) # ch.slash THEN Out(1, str, x)
        ELSE Segment(minio_rfc3986_segment(s, str + 1, 0, FALSE))

minio_rfc3986_path_rootless(x, s, str) ==
    LET Matched(cur) == Out(0, cur, StorePath(x, s, str, cur))
        Segment(sg) == IF sg.ret # 0 THEN Out(sg.ret, str, x)
                     ELSE Matched(SegmentsLoop(s, sg.cur))
    IN  Segment(minio_rfc3986_segment(s, str, 0, FALSE))

\* minio_rfc3986_path_no_scheme with no byte forbidden in the first segment.
minio_rfc3986_path_no_scheme_ColonAllowed(x, s, str) ==
    LET Matched(cur) == Out(0, cur, StorePath(x, s, str, cur))
        Segment(sg) == IF sg.ret # 0 THEN Out(sg.ret, str, x)
                     ELSE Matched(SegmentsLoop(s, sg.cur))
    IN  Segment(minio_rfc3986_segment(s, str, 0, FALSE))

minio_rfc3986_path_no_scheme(x, s, str) ==
    LET Matched(cur) == Out(0, cur, StorePath(x, s, str, cur))
        Segment(sg) == IF sg.ret # 0 THEN Out(sg.ret, str, x)
                     ELSE Matched(SegmentsLoop(s, sg.cur))
    IN  Segment(minio_rfc3986_segment(s, str, ch.colon, FALSE))

\* path-empty: if (uri->path != NULL) free(uri->path); uri->path = NULL;
PathEmpty(x) == IF x.sink THEN Store(x, "path", NullP) ELSE x

minio_rfc3986_hier_part(x, s, str) ==
    LET Authority(au) == IF au.ret # 0 THEN Out(au.ret, str, au.x)
                         ELSE minio_rfc3986_path_ab_empty(au.x, s, au.cur)
        Path(pa) == IF pa.ret # 0 THEN Out(pa.ret, str, pa.x) ELSE pa
    IN  IF Ch(s, str) = ch.slash /\ Ch(s, str + 1) = ch.slash
        THEN Authority(minio_rfc3986_authority(x, s, str + 2))
        ELSE IF Ch(s, str) = ch.slash
             THEN Path(minio_rfc3986_path_absolute(x, s, str))
        ELSE IF ISA_PCHAR(s, str)
             THEN Path(minio_rfc3986_path_rootless(x, s, str))
        ELSE Out(0, str, PathEmpty(x))

\* QueryFragmentEnd without its test for the terminator.
QueryFragmentEnd_NoEndCheck(x, s, str) ==
    LET Fragment(qu) == IF Ch(s, qu.cur) = ch.hash
                        THEN minio_rfc3986_fragment(qu.x, s, qu.cur + 1)
                        ELSE qu
    IN  Fragment(IF Ch(s, str) = ch.qm THEN minio_rfc3986_query(x, s, str + 1)
                 ELSE Out(0, str, x))

\* [ "?" query ] [ "#" fragment ] and the test for the terminator that end
\* both top-level grammars: a byte left over clears the record (URI_TRIM)
\* and gives status 1.
QueryFragmentEnd(x, s, str) ==
    LET End(fr) == IF Ch(s, fr.cur) # 0 THEN Out(1, fr.cur, URI_TRIM(fr.x))
                   ELSE Out(0, fr.cur, fr.x)
        Fragment(qu) == End(IF Ch(s, qu.cur) = ch.hash
                            THEN minio_rfc3986_fragment(qu.x, s, qu.cur + 1)
                            ELSE qu)
    IN  Fragment(IF Ch(s, str) = ch.qm THEN minio_rfc3986_query(x, s, str + 1)
                 ELSE Out(0, str, x))

\* The relative-part of minio_rfc3986_relative_ref.  str is the matcher's
\* own copy of the cursor, which path_absolute advances even when it fails.
RelativePart(x, s, str) ==
    LET Authority(au) == IF au.ret # 0 THEN au
                         ELSE minio_rfc3986_path_ab_empty(au.x, s, au.cur)
    IN
    IF Ch(s, str) = ch.slash /\ Ch(s, str + 1) = ch.slash
    THEN Authority(minio_rfc3986_authority(x, s, str + 2))
    ELSE IF Ch(s, str) = ch.slash THEN minio_rfc3986_path_absolute(x, s, str)
    ELSE IF ISA_PCHAR(s, str) THEN minio_rfc3986_path_no_scheme(x, s, str)
    ELSE Out(0, str, PathEmpty(x))

minio_rfc3986_relative_ref(x, s) ==
    LET Rest(rp) == IF rp.ret # 0 THEN rp ELSE QueryFragmentEnd(rp.x, s, rp.cur)
    IN  Rest(RelativePart(x, s, 1))

minio_rfc3986(x, s) ==
    LET Rest(hp) == IF hp.ret # 0 THEN hp ELSE QueryFragmentEnd(hp.x, s, hp.cur)
        Scheme(sc) == IF sc.ret # 0 THEN sc
                      ELSE IF Ch(s, sc.cur) # ch.colon THEN Out(1, sc.cur, sc.x)
                      ELSE Rest(minio_rfc3986_hier_part(sc.x, s, sc.cur + 1))
    IN  Scheme(minio_rfc3986_scheme(x, s, 1))

\* minio_rfc3986_uri_reference that keeps the status of the absolute
\* grammar when the relative one fails too.
minio_rfc3986_uri_reference_FirstStatus(x, s) ==
    LET Relative(rel, first) ==
            IF rel.ret # 0 THEN Out(first, rel.cur, URI_TRIM(rel.x)) ELSE rel
        Absolute(abs) ==
            IF abs.ret = 0 THEN abs
            ELSE Relative(minio_rfc3986_relative_ref(URI_TRIM(abs.x), s), abs.ret)
    IN  Absolute(minio_rfc3986(URI_TRIM(x), s))

\* minio_rfc3986_uri_reference for a non-null text: abs and rel are the
\* results of the two grammars (rel is run only when abs fails).
minio_rfc3986_uri_reference(x, s) ==
    LET Relative(rel) == IF rel.ret # 0
                         THEN Out(rel.ret, rel.cur, URI_TRIM(rel.x))
                         ELSE rel
        Absolute(abs) ==
            IF abs.ret = 0 THEN abs
            ELSE Relative(minio_rfc3986_relative_ref(URI_TRIM(abs.x), s))
    IN  Absolute(minio_rfc3986(URI_TRIM(x), s))

\* minio_uri_parse_into(uri, str): t is the text pointer (null or live).
minio_uri_parse_into(x, t) ==
    IF t.k = "null" THEN Out(0 - 1, 1, x)
    ELSE minio_rfc3986_uri_reference(x, t.v)

\* minio_uri_parse(str, buri): ret is the status returned, ptr the record
\* pointer delivered through buri ("null" when *buri is not written), inner
\* the status of the underlying minio_uri_parse_into.
minio_uri_parse(t) ==
    LET Parsed(r) ==
            IF r.x.uri.scheme.k = "freed"
            THEN [ret |-> 0 - 1, ptr |-> "null", inner |-> r.ret, x |-> r.x]
            ELSE [ret |-> 0, ptr |-> "live", inner |-> r.ret, x |-> r.x]
    IN  IF t.k = "null"
        THEN [ret |-> 0 - 1, ptr |-> "null", inner |-> 0 - 1,
              x |-> Ctx(minio_uri_new, TRUE)]
        ELSE Parsed(minio_uri_parse_into(Ctx(minio_uri_new, TRUE), t))

\* minio_uri_parse_raw(str, raw): ptr is the pointer returned; URI_FREE
\* trims the record, frees it and leaves 0xeeeeeeee in the local that is
\* returned.
minio_uri_parse_raw(t, raw) ==
    IF t.k = "null"
    THEN [ptr |-> "null", inner |-> 0 - 1, x |-> Ctx(minio_uri_new, TRUE)]
    ELSE LET u == [minio_uri_new EXCEPT !.cleanup = IF raw # 0 THEN 2 ELSE 0]
             Parsed(r) ==
                 IF r.ret # 0
                 THEN [ptr |-> "freed", inner |-> r.ret, x |-> URI_TRIM(r.x)]
                 ELSE [ptr |-> "live", inner |-> r.ret, x |-> r.x]
         IN  Parsed(minio_uri_parse_into(Ctx(u, TRUE), t))

(***************************************************************************)
(* The serializer.                                                         *)
(***************************************************************************)
\* '%' and the two uppercase hex digits of byte c.
PctHex(c) == <<ch.pct, HexDigit(c \div 16), HexDigit(c % 16)>>

\* The escape loops of minio_uri_to_string: a byte is copied when it is
\* unreserved, reserved (withReserved) or in keep, and escaped otherwise.
RECURSIVE EscapeField(_, _, _, _)
EscapeField(str, in, keep, withReserved) ==
    IF in > Len(str) THEN <<>>
    ELSE LET c == str[in]
         IN  (IF \/ IS_UNRESERVED(c)
                 \/ (withReserved /\ IS_RESERVED(c))
                 \/ c \in keep
              THEN <<c>> ELSE PctHex(c))
             \o EscapeField(str, in + 1, keep, withReserved)

\* snprintf("%d") of a positive int.
RECURSIVE Decimal(_)
Decimal(n) == IF n < 10 THEN <<ch.d0 + n>>
              ELSE Decimal(n \div 10) \o <<ch.d0 + (n % 10)>>

UserKeep == {ch.semi, ch.colon, ch.amp, ch.eq, ch.plus, ch.dollar, ch.comma}

AuthorityKeep == UserKeep \cup {ch.at}

PathKeep == {ch.slash, ch.semi, ch.at, ch.amp, ch.eq, ch.plus, ch.dollar,
             ch.comma}

FileScheme == <<ch.f, ch.i, ch.l, ch.e>>

\* The bytes read through a field: those of a live string, or whatever g
\* lies behind a released pointer.
Deref(p, g) == IF p.k = "freed" THEN g ELSE p.v

\* Whether minio_uri_to_string reads through a released pointer of u.
ReadsFreed(u) ==
    \/ u.scheme.k = "freed"
    \/ u.opaque.k = "freed"
    \/ u.fragment.k = "freed"
    \/ /\ u.opaque.k = "null"
       /\ \/ u.server.k = "freed"
          \/ (u.server.k # "null" /\ u.user.k = "freed")
          \/ (u.server.k = "null" /\ u.authority.k = "freed")
          \/ u.path.k = "freed"
          \/ u.query.k = "freed"

ToStringPath(u, g) ==
    LET pth == Deref(u.path, g)
        drive == /\ u.scheme.k # "null"
                 /\ Ch(pth, 1) = ch.slash
                 /\ IS_ALPHA(Ch(pth, 2))
                 /\ Ch(pth, 3) = ch.colon
                 /\ Deref(u.scheme, g) = FileScheme
    IN  IF drive THEN SubSeq(pth, 1, 3) \o EscapeField(pth, 4, PathKeep, FALSE)
        ELSE EscapeField(pth, 1, PathKeep, FALSE)

ToStringAuthority(u, g) ==
    IF u.server.k # "null"
    THEN <<ch.slash, ch.slash>>
         \o (IF u.user.k # "null"
             THEN EscapeField(Deref(u.user, g), 1, UserKeep, FALSE) \o <<ch.at>>
             ELSE <<>>)
         \o Deref(u.server, g)
         \o (IF u.port > 0 THEN <<ch.colon>> \o Decimal(u.port) ELSE <<>>)
    ELSE IF u.authority.k # "null"
         THEN <<ch.slash, ch.slash>>
              \o EscapeField(Deref(u.authority, g), 1, AuthorityKeep, FALSE)
    ELSE IF u.scheme.k # "null" THEN <<ch.slash, ch.slash>>
    ELSE <<>>

\* minio_uri_to_string(uri) for a non-null record whose allocations
\* succeed; g is what a read through a released pointer finds.
minio_uri_to_string(u, g) ==
    (IF u.scheme.k # "null" THEN Deref(u.scheme, g) \o <<ch.colon>> ELSE <<>>)
    \o (IF u.opaque.k # "null"
        THEN EscapeField(Deref(u.opaque, g), 1, {}, TRUE)
        ELSE ToStringAuthority(u, g)
             \o (IF u.path.k # "null" THEN ToStringPath(u, g) ELSE <<>>)
             \o (IF u.query.k # "null"
                 THEN <<ch.qm>> \o Deref(u.query, g) ELSE <<>>))
    \o (IF u.fragment.k # "null"
        THEN <<ch.hash>> \o EscapeField(Deref(u.fragment, g), 1, {}, TRUE)
        ELSE <<>>)

\* MAX_URI_LENGTH of uri.h: 1024 * 1024.
MAX_URI_LENGTH == 1048576

\* realloc2n(ret, &max) when realloc succeeds: the value it leaves in *max.
realloc2n(max) == max * 2

\* The while (*p != 0) loop of minio_uri_to_string over the n bytes left of
\* a path whose bytes are copied as they are, with len bytes written into a
\* buffer of max: the len and max it ends with.  A byte that finds
\* len + 3 >= max is written after a realloc2n; the bytes up to the next
\* such byte are taken in one step.
RECURSIVE PathLoop(_, _, _)
PathLoop(len, max, n) ==
    IF n = 0 THEN [len |-> len, max |-> max]
    ELSE IF len + 3 >= max THEN PathLoop(len + 1, realloc2n(max), n - 1)
    ELSE LET room == max - 3 - len
             run == IF n < room THEN n ELSE room
         IN  PathLoop(len + run, max, n - run)

\* minio_uri_to_string of a record whose one field is a path of n bytes
\* that need no escape: the len and max with which it returns its buffer.
ToStringLong(n) ==
    LET End(r) == IF r.len >= r.max THEN [r EXCEPT !.max = realloc2n(r.max)]
                  ELSE r
    IN  End(PathLoop(0, 80, n))

(***************************************************************************)
(* The inputs of the model.                                                *)
(***************************************************************************)
\* The bytes short texts are made of: a letter, a digit, the delimiters of
\* the top-level grammar and a space, which no production accepts.
Alphabet == {ch.a, ch.d1, ch.colon, ch.slash, ch.qm, ch.hash, ch.at, ch.sp}

Seqs(S, n) == UNION {[1..k -> S] : k \in 0..n}

\* Longer texts: the examples the parser is documented with, and texts that
\* reach the bracket, dotted-quad, port and percent-escape branches.
Examples ==
    {
     <<104, 116, 116, 112, 58, 47, 47, 104, 47, 37, 52, 49>>,  \* http://h/%41
     <<104, 116, 116, 112, 58, 47, 47, 91, 58, 58, 49, 93, 58, 56, 48, 56, 48, 47, 120>>,  \* http://[::1]:8080/x
     <<104, 116, 116, 112, 58, 47, 47, 49, 46, 50, 46, 51, 46, 52, 47>>,  \* http://1.2.3.4/
     <<104, 116, 116, 112, 58, 47, 47, 57, 57, 57, 46, 49, 46, 49, 46, 49, 47>>,  \* http://999.1.1.1/
     <<104, 116, 116, 112, 58, 47, 47, 102, 111, 111, 47, 98, 97, 114>>,  \* http://foo/bar
     <<97, 58, 98, 47, 99>>,  \* a:b/c
     <<97, 47, 98, 58, 99>>,  \* a/b:c
     <<104, 116, 116, 112, 58, 47, 47, 104, 47, 112, 97, 116, 104, 32, 103, 97, 114, 98, 97, 103, 101>>,  \* http://h/path garbage
     <<47, 47, 117, 64, 91>>,  \* //u@[
     <<47, 47, 104, 58, 56>>,  \* //h:8
     <<120, 58, 63, 35, 102>>,  \* x:?#f
     <<47, 47, 64, 104>>,  \* //@h
     <<104, 116, 116, 112, 58, 47, 47, 104, 58, 47, 120>>,  \* http://h:/x
     <<102, 105, 108, 101, 58, 47, 47, 47, 99, 58, 47, 120>>,  \* file:///c:/x
     <<120, 58, 47>>,  \* x:/
     <<47, 47, 91>>,  \* //[
     <<120, 58, 97, 37, 50, 70, 98, 63, 113, 61, 37, 50, 48, 35, 102, 37, 52, 49>>}  \* x:a%2Fb?q=%20#f%41

Texts == Seqs(Alphabet, MaxLen) \cup Examples

TextPtrs == {NullP} \cup {Live(t) : t \in Texts}

\* The texts parsed into a record that is used again.
ReuseTextPtrs == {NullP} \cup {Live(t) : t \in Seqs(Alphabet, MaxReuseLen) \cup Examples}

\* uri->cleanup as a caller may have set it: bit 0 permissive, bit 1 raw.
CleanupModes == {0, 1, 2, 3}

\* What a read through 0xeeeeeeee may find, when it does not fault.
Garbage == {<<>>, <<ch.a>>}

\* The byte strings given to the codec: a letter, '%', hex digits, a space,
\* '@', '/' and bytes above 127.
ByteAlphabet == {ch.a, ch.pct, ch.d4, ch.d1, ch.sp, ch.at, ch.slash, 128, 255}

\* Longer byte strings: an escape after a letter, before a '%', before a
\* letter, after a cut escape, and the escape of the NUL.
ByteExamples ==
    {<<ch.a, ch.pct, ch.d4, ch.d1>>,
     <<ch.pct, ch.d4, ch.d1, ch.pct>>,
     <<ch.pct, ch.d4, ch.F, ch.a>>,
     <<ch.pct, ch.d4, ch.pct, ch.d4, ch.d1>>,
     <<ch.pct, ch.d0, ch.d0, ch.a>>}

ByteStrings == Seqs(ByteAlphabet, MaxBytes) \cup ByteExamples

Lists == {<<>>, <<ch.slash>>, <<ch.sp, ch.pct>>}

\* The bytes authorities are made of: a letter, a digit, '.', and the
\* delimiters of userinfo, bracketed host, port and path.
AuthorityAlphabet == {ch.a, ch.d1, ch.dot, ch.colon, ch.at, ch.lbr, ch.rbr,
                      ch.slash}

\* Digit runs: one, two and three digits, in and out of the range of a
\* dec-octet, and one with a leading zero.
Octets == {<<ch.d1>>, <<ch.d2, ch.d5>>, <<ch.d2, ch.d5, ch.d5>>,
           <<ch.d9, ch.d9, ch.d9>>, <<ch.d0, ch.d1>>}

Quads == {a \o <<ch.dot>> \o b \o <<ch.dot>> \o c \o <<ch.dot>> \o d :
            a \in Octets, b \in Octets, c \in Octets, d \in Octets}

\* Texts that open with an authority: "//" and a short authority, or a
\* dotted quad alone, before a path, or before a port.
AuthorityTexts ==
    {<<ch.slash, ch.slash>> \o a : a \in Seqs(AuthorityAlphabet, MaxAuthorityLen)}
    \cup {<<ch.slash, ch.slash>> \o q \o rest :
             q \in Quads, rest \in {<<>>, <<ch.slash>>, <<ch.colon, ch.d8>>}}
    \cup Examples

(***************************************************************************)
(* The state machine: a caller holding one record and making API calls.    *)
(***************************************************************************)
Init ==
    /\ \E c \in CleanupModes : uri = [minio_uri_new EXCEPT !.cleanup = c]
    /\ text = NullP
    /\ arg = 0
    /\ status = 0
    /\ inner = 0
    /\ ptr = "live"
    /\ stop = 1
    /\ res = NullP
    /\ op = "new"
    /\ crashed = FALSE
    /\ calls = 0
    /\ bad = 0
    /\ charSigned \in BOOLEAN
    /\ uri2 = minio_uri_new
    /\ status2 = 0
    /\ oom = 0
    /\ nullw = 0
    /\ outLen = 0
    /\ outMax = 0

\* A call that freed or read through 0xeeeeeeee: the process stops there.
Crash(name, t, a) ==
    /\ crashed' = TRUE
    /\ op' = name
    /\ text' = t
    /\ arg' = a
    /\ UNCHANGED <<uri, status, inner, ptr, stop, res, calls, bad, charSigned,
                   uri2, status2,
                   oom, nullw, outLen, outMax>>

\* minio_uri_parse_into(&record, t) on the caller's record.
ParseInto(t) ==
    /\ ~crashed
    /\ op \in {"new", "parse_into"}
    /\ ptr = "live"
    /\ \E r \in {minio_uri_parse_into(Ctx(uri, TRUE), t)} :
           \/ /\ uri' = r.x.uri
              /\ text' = t
              /\ status' = r.ret
              /\ inner' = r.ret
              /\ stop' = r.cur
              /\ op' = "parse_into"
              /\ calls' = calls + 1
              /\ bad' = bad + r.x.bad
              /\ UNCHANGED <<arg, ptr, res, crashed, charSigned, uri2, status2,
                             oom, nullw, outLen, outMax>>
           \/ /\ r.x.bad > 0
              /\ Crash("parse_into", t, arg)

\* minio_uri_parse_into(NULL, t): validation only.
Validate(t) ==
    /\ ~crashed
    /\ op = "new"
    /\ \E r \in {minio_uri_parse_into(Ctx(uri, FALSE), t)} :
        /\ text' = t
        /\ status' = r.ret
        /\ inner' = r.ret
        /\ stop' = r.cur
        /\ op' = "validate"
        /\ calls' = calls + 1
        /\ bad' = bad + r.x.bad
        /\ UNCHANGED <<uri, arg, ptr, res, crashed, charSigned, uri2, status2,
                       oom, nullw, outLen, outMax>>

\* minio_uri_parse(t, &p), p initially NULL.
Parse(t) ==
    /\ ~crashed
    /\ op = "new"
    /\ \E r \in {minio_uri_parse(t)} :
           \/ /\ uri' = r.x.uri
              /\ text' = t
              /\ status' = r.ret
              /\ inner' = r.inner
              /\ ptr' = r.ptr
              /\ op' = "parse"
              /\ calls' = calls + 1
              /\ bad' = bad + r.x.bad
              /\ UNCHANGED <<arg, stop, res, crashed, charSigned, uri2, status2,
                             oom, nullw, outLen, outMax>>
           \/ /\ r.x.bad > 0
              /\ Crash("parse", t, arg)

\* p = minio_uri_parse_raw(t, raw).
ParseRaw(t, raw) ==
    /\ ~crashed
    /\ op = "new"
    /\ \E r \in {minio_uri_parse_raw(t, raw)} :
           \/ /\ uri' = r.x.uri
              /\ text' = t
              /\ arg' = raw
              /\ inner' = r.inner
              /\ ptr' = r.ptr
              /\ op' = "parse_raw"
              /\ calls' = calls + 1
              /\ bad' = bad + r.x.bad
              /\ UNCHANGED <<status, stop, res, crashed, charSigned, uri2, status2,
                             oom, nullw, outLen, outMax>>
           \/ /\ r.x.bad > 0
              /\ Crash("parse_raw", t, raw)

\* s = minio_uri_to_string(p) on the record pointer the caller holds after
\* a parse.
Serialize ==
    /\ ~crashed
    /\ op \in {"parse_into", "parse", "parse_raw"}
    /\ \/ /\ ptr = "null"
          /\ res' = NullP
          /\ op' = "to_string"
          /\ UNCHANGED <<uri, text, arg, status, inner, ptr, stop, crashed,
                         calls, bad, charSigned, uri2, status2,
                         oom, nullw, outLen, outMax>>
       \/ /\ ptr = "live"
          /\ \E g \in Garbage :
                /\ g # <<>> => ReadsFreed(uri)
                /\ res' = Live(minio_uri_to_string(uri, g))
          /\ op' = "to_string"
          /\ UNCHANGED <<uri, text, arg, status, inner, ptr, stop, crashed,
                         calls, bad, charSigned, uri2, status2,
                         oom, nullw, outLen, outMax>>
       \/ /\ ptr = "freed" \/ (ptr = "live" /\ ReadsFreed(uri))
          /\ Crash("to_string", text, arg)

\* minio_uri_parse_into of the serialized text into a second, new record
\* with the same cleanup bits.
Reparse ==
    /\ ~crashed
    /\ op = "to_string"
    /\ \E r \in {minio_uri_parse_into(
                      Ctx([minio_uri_new EXCEPT !.cleanup = uri.cleanup], TRUE),
                      res)} :
           \/ /\ uri2' = r.x.uri
              /\ status2' = r.ret
              /\ op' = "reparse"
              /\ UNCHANGED <<uri, text, arg, status, inner, ptr, stop, res,
                             crashed, calls, bad, charSigned,
                             oom, nullw, outLen, outMax>>
           \/ /\ r.x.bad > 0
              /\ Crash("reparse", text, arg)

\* The caller holds a new record and has made no call yet.
Idle == ~crashed /\ op = "new"

Next ==
    \/ Idle /\ \E t \in TextPtrs : ParseInto(t)
    \/ Idle /\ \E t \in TextPtrs : Validate(t)
    \/ Idle /\ \E t \in TextPtrs : Parse(t)
    \/ Idle /\ \E t \in TextPtrs, raw \in {0, 1} : ParseRaw(t, raw)
    \/ Serialize
    \/ Reparse

Spec == Init /\ [][Next]_vars

\* One record parsed into again and again.
NextReuse ==
    ~crashed /\ calls < MaxCalls /\ \E t \in ReuseTextPtrs : ParseInto(t)

SpecReuse == Init /\ [][NextReuse]_vars

\* s2 = minio_uri_string_escape(s, list).
Escape(s, list) ==
    /\ op = "new"
    /\ text' = Live(s)
    /\ arg' = list
    /\ res' = Live(minio_uri_string_escape(s, list, charSigned))
    /\ op' = "escape"
    /\ UNCHANGED <<uri, status, inner, ptr, stop, crashed, calls, bad,
                   charSigned, uri2, status2,
                   oom, nullw, outLen, outMax>>

\* s3 = minio_uri_string_unescape(s2, 0, NULL) of an escaped string.
UnescapeEscaped ==
    /\ op = "escape"
    /\ res' = Live(minio_uri_string_unescape(res.v, 0))
    /\ op' = "unescape_escaped"
    /\ UNCHANGED <<uri, text, arg, status, inner, ptr, stop, crashed, calls,
                   bad, charSigned, uri2, status2,
                   oom, nullw, outLen, outMax>>

\* s2 = minio_uri_string_unescape(s, len, NULL), len within the string.
Unescape(s, len) ==
    /\ op = "new"
    /\ text' = Live(s)
    /\ arg' = len
    /\ res' = Live(minio_uri_string_unescape(s, len))
    /\ op' = "unescape"
    /\ UNCHANGED <<uri, status, inner, ptr, stop, crashed, calls, bad,
                   charSigned, uri2, status2,
                   oom, nullw, outLen, outMax>>

NextCodec ==
    \/ Idle /\ \E s \in ByteStrings, list \in Lists : Escape(s, list)
    \/ UnescapeEscaped
    \/ Idle /\ \E s \in ByteStrings : \E len \in (0 - 1)..Len(s) : Unescape(s, len)

SpecCodec == Init /\ [][NextCodec]_vars

\* minio_rfc3986(&record, t): the absolute grammar alone, as
\* minio_rfc3986_uri_reference calls it on a record it has trimmed.
Absolute(t) ==
    /\ ~crashed
    /\ op = "new"
    /\ \E r \in {minio_rfc3986(URI_TRIM(Ctx(uri, TRUE)), t)} :
        /\ uri' = r.x.uri
        /\ text' = Live(t)
        /\ status' = r.ret
        /\ inner' = r.ret
        /\ stop' = r.cur
        /\ op' = "absolute"
        /\ calls' = calls + 1
        /\ bad' = bad + r.x.bad
        /\ UNCHANGED <<arg, ptr, res, crashed, charSigned, uri2, status2,
                       oom, nullw, outLen, outMax>>

\* minio_rfc3986_relative_ref(&record, t): the relative grammar alone.
Relative(t) ==
    /\ ~crashed
    /\ op = "new"
    /\ \E r \in {minio_rfc3986_relative_ref(URI_TRIM(Ctx(uri, TRUE)), t)} :
        /\ uri' = r.x.uri
        /\ text' = Live(t)
        /\ status' = r.ret
        /\ inner' = r.ret
        /\ stop' = r.cur
        /\ op' = "relative"
        /\ calls' = calls + 1
        /\ bad' = bad + r.x.bad
        /\ UNCHANGED <<arg, ptr, res, crashed, charSigned, uri2, status2,
                       oom, nullw, outLen, outMax>>

\* The two grammars on their own, next to the entry point that chains them.
NextGrammar ==
    \/ Idle /\ \E t \in Texts : Absolute(t)
    \/ Idle /\ \E t \in Texts : Relative(t)
    \/ Idle /\ \E t \in TextPtrs : ParseInto(t)
    \/ Idle /\ \E t \in TextPtrs : Validate(t)

SpecGrammar == Init /\ [][NextGrammar]_vars

\* A new record given one text that opens with an authority.
NextAuthority == Idle /\ \E t \in AuthorityTexts : ParseInto(Live(t))

SpecAuthority == Init /\ [][NextAuthority]_vars

\* Texts with the bytes the query and fragment loops accept for a permissive
\* record only, before and after '?' and '#'.
SinkAlphabet == {ch.a, ch.colon, ch.slash, ch.qm, ch.hash, ch.lbrace, ch.lbr}

SinkTexts == Seqs(SinkAlphabet, MaxLen) \cup Examples

\* One text given to minio_uri_parse_into, with a new record or with none.
NextSink ==
    \/ Idle /\ \E t \in SinkTexts : ParseInto(Live(t))
    \/ Idle /\ \E t \in SinkTexts : Validate(Live(t))

SpecSink == Init /\ [][NextSink]_vars

(***************************************************************************)
(* The production matchers on their own: one matcher applied at a cursor   *)
(* of a text, with the caller's record as its sink.                        *)
(***************************************************************************)
Matchers == {"scheme", "user_info", "host", "port", "authority", "segment",
             "segment_empty", "segment_colon", "path_ab_empty",
             "path_absolute", "path_rootless", "path_no_scheme", "hier_part",
             "dec_octet"}

\* The matcher named m called with *str at cursor str of s: segment is
\* called as its callers call it, (0, 0), (0, 1) and (':', 0).
Production(m, x, s, str) ==
    LET Plain(r) == Out(r.ret, r.cur, x)
    IN  CASE m = "scheme" -> minio_rfc3986_scheme(x, s, str)
          [] m = "user_info" -> minio_rfc3986_user_info(x, s, str)
          [] m = "host" -> minio_rfc3986_host(x, s, str)
          [] m = "port" -> minio_rfc3986_port(x, s, str)
          [] m = "authority" -> minio_rfc3986_authority(x, s, str)
          [] m = "segment" -> Plain(minio_rfc3986_segment(s, str, 0, FALSE))
          [] m = "segment_empty" -> Plain(minio_rfc3986_segment(s, str, 0, TRUE))
          [] m = "segment_colon" ->
                 Plain(minio_rfc3986_segment(s, str, ch.colon, FALSE))
          [] m = "path_ab_empty" -> minio_rfc3986_path_ab_empty(x, s, str)
          [] m = "path_absolute" -> minio_rfc3986_path_absolute(x, s, str)
          [] m = "path_rootless" -> minio_rfc3986_path_rootless(x, s, str)
          [] m = "path_no_scheme" -> minio_rfc3986_path_no_scheme(x, s, str)
          [] m = "hier_part" -> minio_rfc3986_hier_part(x, s, str)
          [] m = "dec_octet" -> Plain(minio_rfc3986_dec_octet(s, str))

\* The bytes the matchers are tried on: a letter, a digit, '%', and the
\* delimiters '/', ':' and '.'.
MatcherAlphabet == {ch.a, ch.d2, ch.pct, ch.slash, ch.colon, ch.dot}

MatcherTexts == Seqs(MatcherAlphabet, MaxMatchLen) \cup Examples

\* Digit runs, alone, before a '.' and before a letter.
DigitTexts ==
    {d \o rest : d \in Seqs({ch.d0, ch.d1, ch.d2, ch.d5, ch.d9}, MaxDigits),
                 rest \in {<<>>, <<ch.dot>>, <<ch.a>>}}

\* Dotted quads, alone, before a path and before a port.
QuadTexts == {q \o rest : q \in Quads,
                          rest \in {<<>>, <<ch.slash>>, <<ch.colon, ch.d8>>}}

\* The memory a short C string lies in: its bytes, the terminating NUL, and
\* whatever bytes follow the NUL.
MaxTailLen == 2

AfterNul == {<<ch.d5, ch.a>>, <<ch.slash, ch.pct>>, <<ch.colon, ch.d2>>}

Memory == {t \o <<0>> \o j : t \in Seqs(MatcherAlphabet, MaxTailLen),
                             j \in AfterNul}

\* ret = minio_rfc3986_<m>(&record, &cur) with cur at cursor str of t: arg is
\* str, stop the cursor on return.
Match(m, t, str) ==
    /\ ~crashed
    /\ op = "new"
    /\ \E r \in {Production(m, Ctx(uri, TRUE), t, str)} :
        /\ uri' = r.x.uri
        /\ text' = Live(t)
        /\ arg' = str
        /\ status' = r.ret
        /\ inner' = r.ret
        /\ stop' = r.cur
        /\ op' = m
        /\ calls' = calls + 1
        /\ bad' = bad + r.x.bad
        /\ UNCHANGED <<ptr, res, crashed, charSigned, uri2, status2, oom, nullw,
                       outLen, outMax>>

NextMatcher ==
    \/ Idle /\ \E m \in Matchers, t \in MatcherTexts :
                  \E str \in {1, 2} \cap (1..(Len(t) + 1)) : Match(m, t, str)
    \/ Idle /\ \E t \in DigitTexts : Match("dec_octet", t, 1)
    \/ Idle /\ \E t \in QuadTexts : Match("host", t, 1)
    \/ Idle /\ \E m \in Matchers, t \in Memory : Match(m, t, 1)

SpecMatcher == Init /\ [][NextMatcher]_vars

(***************************************************************************)
(* The same calls made when the heap is exhausted: malloc, strdup and      *)
(* strndup return NULL.  A write through that NULL either faults or is     *)
(* survived.                                                               *)
(***************************************************************************)
\* The call of name wrote n buffers through NULL and the process faulted.
Fault(name, t, a, n) ==
    /\ crashed' = TRUE
    /\ op' = name
    /\ text' = t
    /\ arg' = a
    /\ oom' = 1
    /\ nullw' = n
    /\ UNCHANGED <<uri, status, inner, ptr, stop, res, calls, bad, charSigned,
                   uri2, status2, outLen, outMax>>

\* p = minio_uri_new(): malloc returns NULL, memset clears sizeof(bURI)
\* bytes through it and the NULL is returned.
NewOom ==
    /\ Idle
    /\ \/ /\ ptr' = "null"
          /\ op' = "uri_new"
          /\ oom' = 1
          /\ nullw' = 1
          /\ UNCHANGED <<uri, text, arg, status, inner, stop, res, crashed,
                         calls, bad, charSigned, uri2, status2, outLen, outMax>>
       \/ Fault("uri_new", text, arg, 1)

\* s2 = minio_uri_string_escape(s, list): strdup of the empty string returns
\* NULL; for any other the result of malloc is written through and returned.
EscapeOom(s, list) ==
    /\ op = "new"
    /\ \/ /\ text' = Live(s)
          /\ arg' = list
          /\ res' = NullP
          /\ op' = "escape"
          /\ oom' = 1
          /\ nullw' = IF s = <<>> THEN 0 ELSE 1
          /\ UNCHANGED <<uri, status, inner, ptr, stop, crashed, calls, bad,
                         charSigned, uri2, status2, outLen, outMax>>
       \/ /\ s # <<>>
          /\ Fault("escape", Live(s), list, 1)

\* s2 = minio_uri_string_unescape(s, len, NULL): the result of malloc is
\* written through, the terminating NUL at least, and returned.
UnescapeOom(s, len) ==
    /\ op = "new"
    /\ \/ /\ text' = Live(s)
          /\ arg' = len
          /\ res' = NullP
          /\ op' = "unescape"
          /\ oom' = 1
          /\ nullw' = 1
          /\ UNCHANGED <<uri, status, inner, ptr, stop, crashed, calls, bad,
                         charSigned, uri2, status2, outLen, outMax>>
       \/ Fault("unescape", Live(s), len, 1)

\* minio_uri_parse_into(&record, t): every strndup and every malloc of
\* minio_uri_string_unescape returns NULL.
ParseIntoOom(t) ==
    /\ ~crashed
    /\ op = "new"
    /\ ptr = "live"
    /\ \E r \in {minio_uri_parse_into(CtxOom(uri, TRUE), t)} :
           \/ /\ uri' = r.x.uri
              /\ text' = t
              /\ status' = r.ret
              /\ inner' = r.ret
              /\ stop' = r.cur
              /\ op' = "parse_into"
              /\ calls' = calls + 1
              /\ bad' = bad + r.x.bad
              /\ oom' = r.x.failed
              /\ nullw' = r.x.nullw
              /\ UNCHANGED <<arg, ptr, res, crashed, charSigned, uri2, status2, outLen, outMax>>
           \/ /\ r.x.nullw > 0
              /\ Fault("parse_into", t, arg, r.x.nullw)

\* s = minio_uri_to_string(p) on a new or a parsed record: malloc(81)
\* returns NULL, the bytes of the fields and the terminating NUL are written
\* through it, and it is returned.
SerializeOom ==
    /\ ~crashed
    /\ op \in {"new", "parse_into"}
    /\ oom = 0
    /\ ptr = "live"
    /\ \/ /\ res' = NullP
          /\ op' = "to_string"
          /\ oom' = 1
          /\ nullw' = 1
          /\ UNCHANGED <<uri, text, arg, status, inner, ptr, stop, crashed,
                         calls, bad, charSigned, uri2, status2, outLen, outMax>>
       \/ Fault("to_string", text, arg, 1)

NextAlloc ==
    \/ NewOom
    \/ Idle /\ \E s \in ByteStrings, list \in Lists : EscapeOom(s, list)
    \/ Idle /\ \E s \in ByteStrings : \E len \in 0..Len(s) : UnescapeOom(s, len)
    \/ Idle /\ \E t \in TextPtrs : ParseIntoOom(t)
    \/ Idle /\ \E t \in TextPtrs : ParseInto(t)
    \/ SerializeOom

SpecAlloc == Init /\ [][NextAlloc]_vars

(***************************************************************************)
(* The serializer on long records.  The path and the string returned are   *)
(* held as their lengths.                                                  *)
(***************************************************************************)
RECURSIVE Pow2(_)
Pow2(k) == IF k = 0 THEN 1 ELSE 2 * Pow2(k - 1)

\* Path lengths about each size the buffer takes, and about MAX_URI_LENGTH.
LongLengths ==
    {80 * Pow2(k) + d : k \in 0..MaxDoublings, d \in {0 - 4, 0 - 3, 0 - 2, 0 - 1, 0, 1}}
    \cup {MAX_URI_LENGTH - 1, MAX_URI_LENGTH, MAX_URI_LENGTH + 1}

\* s = minio_uri_to_string(p), p a record whose one field is a path of n
\* letters: arg is n.
SerializeLong(n) ==
    /\ op = "new"
    /\ \E r \in {ToStringLong(n)} :
        /\ outLen' = r.len
        /\ outMax' = r.max
    /\ arg' = n
    /\ op' = "to_string_long"
    /\ UNCHANGED <<uri, text, status, inner, ptr, stop, res, crashed, calls,
                   bad, charSigned, uri2, status2, oom, nullw>>

NextLong == Idle /\ \E n \in LongLengths : SerializeLong(n)

SpecLong == Init /\ [][NextLong]_vars

(***************************************************************************)
(* RFC 3986, as the reference the parser is held to: the generic split of  *)
(* a text at its delimiters (RFC 3986, appendix B) and the character sets  *)
(* of the productions.                                                     *)
(***************************************************************************)
\* The first position of byte c in t at or after i, Len(t)+1 when none.
RECURSIVE First(_, _, _)
First(t, c, i) == IF i > Len(t) THEN Len(t) + 1
                  ELSE IF t[i] = c THEN i
                  ELSE First(t, c, i + 1)

Has(t, c) == First(t, c, 1) <= Len(t)

\* The text before the fragment and before the query.
PreFragment(t) == SubSeq(t, 1, First(t, ch.hash, 1) - 1)

PreQuery(t) == SubSeq(PreFragment(t), 1, First(PreFragment(t), ch.qm, 1) - 1)

SpanFragment(t) == SubSeq(t, First(t, ch.hash, 1) + 1, Len(t))

SpanQuery(t) ==
    SubSeq(PreFragment(t), First(PreFragment(t), ch.qm, 1) + 1, Len(PreFragment(t)))

SpanScheme(t) == SubSeq(PreQuery(t), 1, First(PreQuery(t), ch.colon, 1) - 1)

\* The hier-part of an absolute URI, the relative-part of a relative one.
SpanHier(t, absolute) ==
    IF absolute
    THEN SubSeq(PreQuery(t), First(PreQuery(t), ch.colon, 1) + 1, Len(PreQuery(t)))
    ELSE PreQuery(t)

HasAuthority(h) == Ch(h, 1) = ch.slash /\ Ch(h, 2) = ch.slash

SpanAuthority(h) == SubSeq(h, 3, First(h, ch.slash, 3) - 1)

SpanPath(h) == IF HasAuthority(h) THEN From(h, First(h, ch.slash, 3)) ELSE h

SpanUser(a) == SubSeq(a, 1, First(a, ch.at, 1) - 1)

HostPort(a) == IF Has(a, ch.at) THEN From(a, First(a, ch.at, 1) + 1) ELSE a

SpanServer(a) ==
    LET hp == HostPort(a)
    IN  IF Ch(hp, 1) = ch.lbr THEN SubSeq(hp, 1, First(hp, ch.rbr, 1))
        ELSE SubSeq(hp, 1, First(hp, ch.colon, 1) - 1)

RfcAlpha == (ch.a .. ch.z) \cup (ch.A .. ch.Z)

RfcDigit == ch.d0 .. ch.d9

RfcHex == RfcDigit \cup (ch.a .. ch.f) \cup (ch.A .. ch.F)

RfcUnreserved == RfcAlpha \cup RfcDigit \cup {ch.minus, ch.dot, ch.us, ch.tilde}

RfcSubDelims == {ch.bang, ch.dollar, ch.amp, ch.apos, ch.lpar, ch.rpar,
                 ch.star, ch.plus, ch.comma, ch.semi, ch.eq}

RfcPchar == RfcUnreserved \cup RfcSubDelims \cup {ch.colon, ch.at}

\* t from position i on is made of bytes of ok and of pct-encoded triples.
RECURSIVE RfcRun(_, _, _)
RfcRun(t, i, ok) ==
    \/ i > Len(t)
    \/ t[i] \in ok /\ RfcRun(t, i + 1, ok)
    \/ /\ t[i] = ch.pct
       /\ i + 2 <= Len(t)
       /\ t[i + 1] \in RfcHex
       /\ t[i + 2] \in RfcHex
       /\ RfcRun(t, i + 3, ok)

\* The percent-decoding of t: each pct-encoded triple becomes its byte.
RECURSIVE PctDecode(_)
PctDecode(t) ==
    IF t = <<>> THEN <<>>
    ELSE IF Len(t) >= 3 /\ t[1] = ch.pct /\ t[2] \in RfcHex /\ t[3] \in RfcHex
         THEN <<HexVal(t[2]) * 16 + HexVal(t[3])>> \o PctDecode(From(t, 4))
         ELSE <<t[1]>> \o PctDecode(From(t, 2))

RfcScheme(t) ==
    /\ t # <<>>
    /\ t[1] \in RfcAlpha
    /\ \A i \in 2..Len(t) : t[i] \in RfcAlpha \cup RfcDigit \cup {ch.plus, ch.minus, ch.dot}

\* authority = [ userinfo "@" ] host [ ":" port ], the host a reg-name (an
\* IPv4address is one too); IP-literals are left out.
RfcAuthority(a) ==
    LET hp == HostPort(a)
        col == First(hp, ch.colon, 1)
    IN  /\ Has(a, ch.at) => RfcRun(SpanUser(a), 1, RfcUnreserved \cup RfcSubDelims \cup {ch.colon})
        /\ RfcRun(SubSeq(hp, 1, col - 1), 1, RfcUnreserved \cup RfcSubDelims)
        /\ \A i \in (col + 1)..Len(hp) : hp[i] \in RfcDigit

\* hier-part = "//" authority path-abempty / path-absolute / path-rootless
\*           / path-empty
RfcHierPart(h) ==
    /\ HasAuthority(h) => RfcAuthority(SpanAuthority(h))
    /\ RfcRun(SpanPath(h), 1, RfcPchar \cup {ch.slash})

\* URI = scheme ":" hier-part [ "?" query ] [ "#" fragment ]
ValidURI(t) ==
    /\ Has(PreQuery(t), ch.colon)
    /\ RfcScheme(SpanScheme(t))
    /\ RfcHierPart(SpanHier(t, TRUE))
    /\ RfcRun(SpanQuery(t), 1, RfcPchar \cup {ch.slash, ch.qm})
    /\ RfcRun(SpanFragment(t), 1, RfcPchar \cup {ch.slash, ch.qm})

(***************************************************************************)
(* The properties.                                                         *)
(***************************************************************************)
StringFields == {"scheme", "opaque", "authority", "server", "user", "path",
                 "query", "query_raw", "fragment"}

\* A minio_uri_parse_into on the caller's record has returned, and no call
\* so far has passed 0xeeeeeeee to free().
ReturnedInto == op = "parse_into" /\ ~crashed /\ bad = 0

\* C1: whenever minio_uri_parse_into on a non-null record returns a
\* non-zero status, every string field of the record is null and the port
\* is 0: nothing of the failed attempt remains.
C1_FailedParseClearsRecord ==
    (ReturnedInto /\ calls = 1 /\ status # 0) =>
        /\ \A fld \in StringFields : uri[fld] = NullP
        /\ uri.port = 0

\* C2: minio_uri_parse returns non-zero and delivers no record exactly when
\* the text is null or minio_uri_parse_into rejects it, and returns 0 with
\* a record when minio_uri_parse_into accepts it.
C2_ParseAgreesWithParseInto ==
    (op = "parse" /\ ~crashed /\ bad = 0) =>
        /\ (status = 0) <=> (inner = 0)
        /\ text = NullP => status # 0
        /\ (status = 0) <=> (ptr = "live")

RoundTripFields == {"scheme", "user", "server", "port", "path", "query",
                    "fragment"}

\* C3: every valid RFC 3986 URI parses into a new record (cleanup 0): the
\* call returns, with status 0; and the serialized record parses again,
\* into a record with equal scheme, user, server, port, path, query and
\* fragment.
C3_ValidUriRoundTrips ==
    (/\ op \in {"parse_into", "to_string", "reparse"}
     /\ uri.cleanup = 0
     /\ text # NullP
     /\ ValidURI(text.v)) =>
        /\ ~crashed
        /\ status = 0
        /\ op = "reparse" =>
              /\ status2 = 0
              /\ \A fld \in RoundTripFields : uri2[fld] = uri[fld]

\* The cursors at which the two top-level grammars stop on the text of the
\* last call.
AbsStop == minio_rfc3986(Ctx(uri, op = "parse_into"), text.v).cur

RelStop == minio_rfc3986_relative_ref(Ctx(uri, op = "parse_into"), text.v).cur

\* C4: minio_uri_parse_into returns 0 only when the grammar whose status it
\* returns stopped at the terminator, and it returns non-zero for every
\* text on which both grammars stop before the terminator.
C4_AcceptsOnlyWholeInput ==
    (op \in {"parse_into", "validate"} /\ ~crashed /\ text # NullP) =>
        /\ status = 0 => stop = Len(text.v) + 1
        /\ (AbsStop <= Len(text.v) /\ RelStop <= Len(text.v)) => status # 0

\* A text with a space after its path has been rejected, the cursor left on
\* the space.
C4_Witness ==
    /\ op \in {"parse_into", "validate"}
    /\ ~crashed
    /\ text # NullP
    /\ status = 1
    /\ stop > 1
    /\ stop <= Len(text.v)
    /\ text.v[stop] = ch.sp
    /\ text.v[1] = ch.slash
    /\ AbsStop <= Len(text.v)
    /\ RelStop <= Len(text.v)

\* C5: at every return of minio_uri_parse_into, in any sequence of calls on
\* one record, each string field is null or a live value, and no value has
\* been passed to free() twice.
C5_FieldsNullOrOwned ==
    (op = "parse_into" /\ ~crashed) =>
        /\ \A fld \in StringFields : uri[fld].k \in {"null", "live"}
        /\ bad = 0

\* C6: in every state reached by minio_uri_parse_into calls on a record,
\* query and query_raw are both present or both absent.
C6_QueryAndRawInSync ==
    (~crashed /\ bad = 0) =>
        /\ (uri.query.k = "live") <=> (uri.query_raw.k = "live")
        /\ (uri.query.k = "null") <=> (uri.query_raw.k = "null")

\* C7: minio_uri_parse_raw returns null when the text is null or rejected,
\* and otherwise a live record of an accepted text; never a released one.
C7_ParseRawNullOrLive ==
    (op = "parse_raw" /\ ~crashed /\ bad = 0) =>
        /\ ptr \in {"null", "live"}
        /\ (text = NullP \/ inner # 0) => ptr = "null"
        /\ ptr = "live" => inner = 0

\* The value a component is to have for the matched bytes t.
Expected(t) == IF uri.cleanup \div 2 = 1 THEN t ELSE PctDecode(t)

\* C8: after a successful parse each captured component is the matched
\* substring in raw mode and its percent-decoding otherwise, also when the
\* match is empty, and query_raw is the matched query substring.
C8_CapturedIsMatched ==
    (ReturnedInto /\ calls = 1 /\ status = 0 /\ text # NullP) =>
        LET t == text.v
            h == SpanHier(t, uri.scheme.k = "live")
            a == SpanAuthority(h)
        IN  /\ uri.query.k = "live" => uri.query.v = Expected(SpanQuery(t))
            /\ uri.query_raw.k = "live" => uri.query_raw.v = SpanQuery(t)
            /\ uri.fragment.k = "live" => uri.fragment.v = Expected(SpanFragment(t))
            /\ uri.user.k = "live" => uri.user.v = Expected(SpanUser(a))
            /\ uri.server.k = "live" => uri.server.v = Expected(SpanServer(a))
            /\ uri.path.k = "live" => uri.path.v = Expected(SpanPath(h))

\* C9: for every byte string s without a NUL,
\* minio_uri_string_unescape(minio_uri_string_escape(s, ""), 0, NULL) is s.
C9_UnescapeOfEscape ==
    (op = "unescape_escaped" /\ arg = <<>>) => res.v = text.v

\* A ':' followed by a digit somewhere in t: without one, t has no port
\* segment.
HasColonDigit(t) ==
    \E n \in 1..Len(t) : t[n] = ch.colon /\ IS_DIGIT(Ch(t, n + 1))

\* C10: after a successful minio_uri_parse_into of a text without a
\* ':' digits port segment the port is 0, also in a record used before.
C10_NoPortSegmentGivesZero ==
    (ReturnedInto /\ status = 0 /\ text # NullP /\ ~HasColonDigit(text.v)) =>
        uri.port = 0


\* The first segment of a relative reference: the bytes before the first
\* '/', '?' or '#'.
FirstSegment(t) == SubSeq(PreQuery(t), 1, First(PreQuery(t), ch.slash, 1) - 1)

\* relative-part = path-noscheme, with query and fragment: a first segment
\* of at least one pchar other than ':', then any segments.
RfcNoSchemeRef(t) ==
    /\ FirstSegment(t) # <<>>
    /\ RfcRun(FirstSegment(t), 1, RfcPchar \ {ch.colon})
    /\ RfcRun(PreQuery(t), 1, RfcPchar \cup {ch.slash})
    /\ RfcRun(SpanQuery(t), 1, RfcPchar \cup {ch.slash, ch.qm})
    /\ RfcRun(SpanFragment(t), 1, RfcPchar \cup {ch.slash, ch.qm})

\* C11: the relative grammar rejects every text whose first segment (the
\* bytes before the first '/') holds a ':', and accepts every path-noscheme
\* reference, whose later segments may hold ':', with the whole path
\* captured; the first segment of a path captured in raw mode holds no ':'.
C11_NoSchemeRejectsColonInFirstSegment ==
    (op = "relative" /\ ~crashed) =>
        /\ Has(FirstSegment(text.v), ch.colon) => status # 0
        /\ RfcNoSchemeRef(text.v) =>
              /\ status = 0
              /\ uri.path = Live(Expected(PreQuery(text.v)))
        /\ (status = 0 /\ uri.path.k = "live" /\ RawMode(Ctx(uri, TRUE))) =>
              ~Has(FirstSegment(uri.path.v), ch.colon)

\* "a/b:c" given to the relative grammar: accepted, path "a/b:c".
C11_Witness ==
    /\ op = "relative"
    /\ ~crashed
    /\ text.v = <<ch.a, ch.slash, ch.b, ch.colon, 99>>
    /\ status = 0
    /\ uri.path = Live(text.v)


(***************************************************************************)
(* The authority of a text, read off the text: it opens after "//", at the *)
(* start or after a scheme and ':'.                                        *)
(***************************************************************************)
\* The position of the first byte of the authority, 0 when the text has
\* none.
AuthorityAt(t) ==
    IF Ch(t, 1) = ch.slash /\ Ch(t, 2) = ch.slash THEN 3
    ELSE IF /\ Has(t, ch.colon)
            /\ RfcScheme(SubSeq(t, 1, First(t, ch.colon, 1) - 1))
            /\ Ch(t, First(t, ch.colon, 1) + 1) = ch.slash
            /\ Ch(t, First(t, ch.colon, 1) + 2) = ch.slash
         THEN First(t, ch.colon, 1) + 3
    ELSE 0

\* The end of the run of bytes of ok and pct-encoded triples of t that
\* starts at i: the position of the first byte outside it.
RECURSIVE RunEnd(_, _, _)
RunEnd(t, i, ok) ==
    IF i > Len(t) THEN i
    ELSE IF t[i] \in ok THEN RunEnd(t, i + 1, ok)
    ELSE IF /\ t[i] = ch.pct
            /\ i + 2 <= Len(t)
            /\ t[i + 1] \in RfcHex
            /\ t[i + 2] \in RfcHex
         THEN RunEnd(t, i + 3, ok)
    ELSE i

\* The end of the leading run of userinfo characters of the authority.
UserRunEnd(t) ==
    RunEnd(t, AuthorityAt(t), RfcUnreserved \cup RfcSubDelims \cup {ch.colon})

\* userinfo is there when that run ends at '@'.
UserTerminated(t) == Ch(t, UserRunEnd(t)) = ch.at

HostAt(t) == IF UserTerminated(t) THEN UserRunEnd(t) + 1 ELSE AuthorityAt(t)

\* The first position at or after i of a byte of set, Len(t)+1 when none.
RECURSIVE FirstOf(_, _, _)
FirstOf(t, set, i) == IF i > Len(t) THEN Len(t) + 1
                      ELSE IF t[i] \in set THEN i
                      ELSE FirstOf(t, set, i + 1)

\* The position after the host: after the first ']' of a bracketed host,
\* else at the first ':', '/', '?' or '#'.
HostEnd(t) ==
    IF Ch(t, HostAt(t)) = ch.lbr THEN First(t, ch.rbr, HostAt(t)) + 1
    ELSE FirstOf(t, {ch.colon, ch.slash, ch.qm, ch.hash}, HostAt(t))

HostText(t) ==
    SubSeq(t, HostAt(t), IF HostEnd(t) > Len(t) THEN Len(t) ELSE HostEnd(t) - 1)

\* C12: when the leading run of userinfo characters of the authority does
\* not end at '@', a successful parse leaves user absent and server equal
\* to the host text that starts where the authority starts (absent when
\* that text is empty).
C12_UserinfoWithoutAtNotCommitted ==
    (/\ ReturnedInto
     /\ status = 0
     /\ text # NullP
     /\ AuthorityAt(text.v) > 0
     /\ ~UserTerminated(text.v)) =>
        /\ uri.user = NullP
        /\ uri.server = IF HostText(text.v) = <<>> THEN NullP
                        ELSE Live(Expected(HostText(text.v)))

\* "http://foo/bar": server "foo", no user.
C12_Witness ==
    /\ ReturnedInto
    /\ status = 0
    /\ text.v = <<104, 116, 116, 112, 58, 47, 47, 102, 111, 111, 47, 98, 97, 114>>
    /\ ~UserTerminated(text.v)
    /\ uri.user = NullP
    /\ uri.server = Live(<<102, 111, 111>>)

\* The value of the digits of t from position i to the first byte that is
\* no digit, after acc.
RECURSIVE DigitsValue(_, _, _)
DigitsValue(t, i, acc) ==
    IF i <= Len(t) /\ t[i] \in RfcDigit
    THEN DigitsValue(t, i + 1, acc * 10 + (t[i] - ch.d0))
    ELSE acc

\* C13: for a host that begins with '[': without a ']' after it the parse
\* fails; with one, a successful parse has as server the text from '['
\* through the first ']', whatever lies between, and as port the value of
\* the digits of a ':' digits segment that follows the ']'.
C13_BracketedHost ==
    (/\ ReturnedInto
     /\ text # NullP
     /\ AuthorityAt(text.v) > 0
     /\ Ch(text.v, HostAt(text.v)) = ch.lbr) =>
        /\ ~Has(From(text.v, HostAt(text.v)), ch.rbr) => status # 0
        /\ status = 0 =>
              /\ uri.server = Live(Expected(HostText(text.v)))
              /\ Ch(text.v, HostEnd(text.v)) = ch.colon =>
                    uri.port = DigitsValue(text.v, HostEnd(text.v) + 1, 0)
              /\ Ch(text.v, HostEnd(text.v)) # ch.colon => uri.port = 0

\* "http://[::1]:8080/x": server "[::1]", port 8080, path "/x".
C13_Witness ==
    /\ ReturnedInto
    /\ status = 0
    /\ text.v = <<104, 116, 116, 112, 58, 47, 47, 91, 58, 58, 49, 93, 58, 56,
                  48, 56, 48, 47, 120>>
    /\ uri.server = Live(<<91, 58, 58, 49, 93>>)
    /\ uri.port = 8080
    /\ uri.path = Live(<<47, 120>>)

\* t is four runs of digits separated by three '.'.
IsQuad(t) ==
    /\ t # <<>>
    /\ \A i \in 1..Len(t) : t[i] \in RfcDigit \cup {ch.dot}
    /\ Cardinality({i \in 1..Len(t) : t[i] = ch.dot}) = 3
    /\ t[1] # ch.dot
    /\ t[Len(t)] # ch.dot
    /\ \A i \in 1..(Len(t) - 1) : ~(t[i] = ch.dot /\ t[i + 1] = ch.dot)

\* What follows the host is nothing, a path, or a port and a path.
AfterHostValid(t) ==
    LET rest == From(t, HostEnd(t))
        path == From(rest, FirstOf(rest, {ch.slash}, 1))
    IN  /\ RfcRun(path, 1, RfcPchar \cup {ch.slash})
        /\ \/ Ch(rest, 1) \in {0, ch.slash}
           \/ /\ Ch(rest, 1) = ch.colon
              /\ Ch(rest, 2) \in RfcDigit
              /\ \A i \in 2..(Len(rest) - Len(path)) : rest[i] \in RfcDigit

\* C14: an authority whose host is four '.'-separated digit runs parses,
\* with server equal to the host text, whether or not the runs are
\* dec-octets.
C14_DottedQuadHost ==
    (/\ op = "parse_into"
     /\ text # NullP
     /\ AuthorityAt(text.v) > 0
     /\ IsQuad(HostText(text.v))
     /\ AfterHostValid(text.v)) =>
        /\ ~crashed
        /\ status = 0
        /\ uri.server = Live(HostText(text.v))

\* "http://999.1.1.1/": server "999.1.1.1".
C14_Witness ==
    /\ ReturnedInto
    /\ status = 0
    /\ text.v = <<104, 116, 116, 112, 58, 47, 47, 57, 57, 57, 46, 49, 46, 49,
                  46, 49, 47>>
    /\ IsQuad(HostText(text.v))
    /\ uri.server = Live(<<57, 57, 57, 46, 49, 46, 49, 46, 49>>)

\* C15: minio_uri_parse_into returns -1 exactly for a null text and 0 or 1
\* for any other; 2 is returned by the absolute grammar alone, exactly when
\* the text opens with no letter (the scheme matcher fails), and never by
\* the relative grammar or the entry point.
C15_StatusContract ==
    /\ (op \in {"parse_into", "validate"} /\ ~crashed) =>
          /\ status \in {0 - 1, 0, 1}
          /\ (status = 0 - 1) <=> (text = NullP)
    /\ op = "absolute" =>
          /\ status \in {0, 1, 2}
          /\ (status = 2) <=> (Ch(text.v, 1) \notin RfcAlpha)
    /\ op = "relative" => status \in {0, 1}

\* A text that opens with no letter, for which the absolute grammar gives
\* 2, given to the entry point: status 1.
C15_Witness ==
    /\ op = "parse_into"
    /\ ~crashed
    /\ text = Live(<<ch.sp>>)
    /\ minio_rfc3986(Ctx(uri, TRUE), text.v).ret = 2
    /\ status = 1

\* C16: when an allocation fails during minio_uri_new, the codec, the
\* serializer or a parse, the call writes through no null pointer and
\* returns an error: a null record or string, or a non-zero status.
C16_AllocationFailureIsReported ==
    oom > 0 =>
        /\ nullw = 0
        /\ ~crashed
        /\ op = "uri_new" => ptr = "null"
        /\ op \in {"escape", "unescape", "to_string"} => res = NullP
        /\ op = "parse_into" => status # 0

\* C17: minio_uri_to_string returns no string longer than MAX_URI_LENGTH.
C17_OutputWithinMaxUriLength ==
    op = "to_string_long" => outLen <= MAX_URI_LENGTH

\* The bytes minio_uri_string_unescape(t, len, NULL) is to process: the
\* first len, or all of t when len <= 0.
Processed(t, len) == IF len <= 0 THEN t ELSE SubSeq(t, 1, len)

\* The value of a hex digit, by RFC 3986.
RfcHexValue(c) == IF c \in RfcDigit THEN c - ch.d0
                  ELSE IF c \in ch.a .. ch.f THEN c - ch.a + 10
                  ELSE c - ch.A + 10

\* The bytes t decodes to: a '%' with two hex digits after it in t is the
\* byte of that value, any other byte is itself.
RECURSIVE RfcDecoded(_)
RfcDecoded(t) ==
    IF t = <<>> THEN <<>>
    ELSE IF Len(t) >= 3 /\ t[1] = ch.pct /\ t[2] \in RfcHex /\ t[3] \in RfcHex
         THEN <<16 * RfcHexValue(t[2]) + RfcHexValue(t[3])>>
              \o RfcDecoded(SubSeq(t, 4, Len(t)))
         ELSE <<t[1]>> \o RfcDecoded(Tail(t))

\* C18: minio_uri_string_unescape(str, len, NULL) returns the decoding of the
\* first len bytes of str, of all of str when len <= 0: an escape whose two
\* hex digits lie within those bytes becomes one byte, every other byte is
\* copied; the string returned is NUL-terminated, so read up to the first
\* NUL an escape decoded to, is no longer than the bytes processed and is
\* those bytes when none of them is '%'.
C18_UnescapeDecodesProcessedBytes ==
    op = "unescape" =>
        /\ res.k = "live"
        /\ res.v = CStr(RfcDecoded(Processed(text.v, arg)))
        /\ Len(res.v) <= Len(Processed(text.v, arg))
        /\ ~Has(Processed(text.v, arg), ch.pct) => res.v = Processed(text.v, arg)

\* "a%41" cut after three bytes: the '%' has one digit within them and is
\* copied.
C18_Witness ==
    /\ op = "unescape"
    /\ text.v = <<ch.a, ch.pct, ch.d4, ch.d1>>
    /\ arg = 3
    /\ res.v = <<ch.a, ch.pct, ch.d4>>

\* The bytes the escaper is to copy: '@', the alphanumerics and the marks
\* - _ . ! ~ * ' ( ), and the members of list.
Verbatim(list) ==
    {ch.at} \cup RfcAlpha \cup RfcDigit
    \cup {ch.minus, ch.us, ch.dot, ch.bang, ch.tilde, ch.star, ch.apos,
          ch.lpar, ch.rpar}
    \cup {list[j] : j \in 1..Len(list)}

\* The uppercase hex digit of a value 0..15.
UpperHex(v) == <<ch.d0, ch.d1, ch.d2, 51, ch.d4, ch.d5, 54, 55, ch.d8, ch.d9,
                 ch.A, 66, 67, 68, 69, ch.F>>[v + 1]

\* The escaping of t: a byte to copy is itself, any other is '%' and the two
\* uppercase hex digits of its value.
RECURSIVE Escaped(_, _)
Escaped(t, list) ==
    IF t = <<>> THEN <<>>
    ELSE (IF t[1] \in Verbatim(list) THEN <<t[1]>>
          ELSE <<ch.pct, UpperHex(t[1] \div 16), UpperHex(t[1] % 16)>>)
         \o Escaped(Tail(t), list)

\* C19: minio_uri_string_escape(str, list) copies '@', the unreserved
\* characters and the members of list, writes every other byte as '%' and
\* the two uppercase hex digits of its value, and so returns a string no
\* shorter than str.
C19_EscapeCopiesOrEncodes ==
    op = "escape" =>
        /\ res.v = Escaped(text.v, arg)
        /\ Len(res.v) >= Len(text.v)

\* The record as minio_uri_new made it, with the cleanup bits of the
\* caller's record.
NewRecord == [minio_uri_new EXCEPT !.cleanup = uri.cleanup]

\* C20: when minio_uri_parse_into of a new record accepts a text that the
\* absolute grammar rejects, the record is the one the relative grammar
\* writes into a new record: nothing of the absolute attempt is left, and
\* scheme is absent.
C20_RelativeFallbackDiscardsAbsolute ==
    (/\ op = "parse_into"
     /\ ~crashed
     /\ text.k = "live"
     /\ status = 0
     /\ minio_rfc3986(Ctx(NewRecord, TRUE), text.v).ret # 0) =>
        /\ uri.scheme = NullP
        /\ uri = minio_rfc3986_relative_ref(Ctx(NewRecord, TRUE), text.v).x.uri

\* The value of the decimal numeral d.
RECURSIVE DecValue(_)
DecValue(d) ==
    IF d = <<>> THEN 0
    ELSE DecValue(SubSeq(d, 1, Len(d) - 1)) * 10 + (d[Len(d)] - ch.d0)

\* The digits of t from cursor i on, up to the first byte that is no digit.
RECURSIVE DigitRun(_, _)
DigitRun(t, i) ==
    IF Ch(t, i) \in RfcDigit THEN <<t[i]>> \o DigitRun(t, i + 1) ELSE <<>>

\* A dec-octet of RFC 3986: one to three digits, no leading zero, at most 255.
IsDecOctet(d) ==
    /\ Len(d) \in 1..3
    /\ \A j \in 1..Len(d) : d[j] \in RfcDigit
    /\ Len(d) > 1 => d[1] # ch.d0
    /\ DecValue(d) <= 255

\* C21: the digits minio_rfc3986_dec_octet consumes are a dec-octet, a value
\* 0..255 written without a leading zero; a dec-octet followed by a
\* non-digit is consumed whole; three digits denoting more than 255 are not
\* consumed.
C21_DecOctetInRange ==
    op = "dec_octet" =>
        /\ status = 0 => IsDecOctet(SubSeq(text.v, arg, stop - 1))
        /\ IsDecOctet(DigitRun(text.v, arg)) =>
               status = 0 /\ stop = arg + Len(DigitRun(text.v, arg))
        /\ status # 0 => stop = arg

\* The authority of t is a reg-name of unreserved characters, then ':' and
\* no digit, then nothing or a path.
EmptyPortAuthority(t) ==
    /\ AuthorityAt(t) > 0
    /\ ~UserTerminated(t)
    /\ HostText(t) # <<>>
    /\ \A i \in 1..Len(HostText(t)) : HostText(t)[i] \in RfcUnreserved
    /\ Ch(t, HostEnd(t)) = ch.colon
    /\ Ch(t, HostEnd(t) + 1) \in {0, ch.slash}
    /\ RfcRun(From(t, HostEnd(t) + 1), 1, RfcPchar \cup {ch.slash})

\* C22: a host followed by ':' and no digit is an authority without a
\* port: the text parses and port is 0.
C22_EmptyPortAccepted ==
    (op = "parse_into" /\ text # NullP /\ EmptyPortAuthority(text.v)) =>
        /\ ~crashed
        /\ status = 0
        /\ uri.port = 0

\* A pchar of RFC 3986 begins at position i of t.
RfcPcharAt(t, i) ==
    \/ Ch(t, i) \in RfcPchar
    \/ Ch(t, i) = ch.pct /\ Ch(t, i + 1) \in RfcHex /\ Ch(t, i + 2) \in RfcHex

\* C23: minio_rfc3986_path_absolute at a '/' that no pchar follows matches
\* the '/' alone: status 0, the cursor after the '/', path "/".
C23_LoneSlashIsPathAbsolute ==
    (/\ op = "path_absolute"
     /\ Ch(text.v, arg) = ch.slash
     /\ ~RfcPcharAt(text.v, arg + 1)) =>
        /\ status = 0
        /\ stop = arg + 1
        /\ uri.path = Live(<<ch.slash>>)

\* C24: a production matcher that returns a non-zero status leaves the
\* caller's cursor where it was on entry.
C24_FailureLeavesCursor ==
    (op \in Matchers /\ status # 0) => stop = arg

\* The cursor after a dec-octet of RFC 3986 that starts at cursor i of t and
\* is followed by the byte sep, or 0 when there is none.
AfterOctet(t, i, sep) ==
    IF IsDecOctet(DigitRun(t, i)) /\ Ch(t, i + Len(DigitRun(t, i))) = sep
    THEN i + Len(DigitRun(t, i)) + 1
    ELSE 0

\* The host that starts at cursor i of t is an IPv4address of RFC 3986: four
\* dec-octets separated by '.', and no reg-name byte after the fourth.
IsDottedQuad(t, i) ==
    LET Fourth(i4) == /\ i4 > 0
                      /\ IsDecOctet(DigitRun(t, i4))
                      /\ Ch(t, i4 + Len(DigitRun(t, i4)))
                             \notin RfcUnreserved \cup RfcSubDelims \cup {ch.pct}
        Third(i3) == i3 > 0 /\ Fourth(AfterOctet(t, i3, ch.dot))
        Second(i2) == i2 > 0 /\ Third(AfterOctet(t, i2, ch.dot))
    IN  Second(AfterOctet(t, i, ch.dot))

\* C25: minio_rfc3986_host matches a host of four dec-octets separated by
\* '.' in its dotted-quad attempt, which reaches the found label with the
\* cursor after the fourth dec-octet, and not by returning to the start of
\* the host for reg-name matching.
C25_DottedQuadBranchMatches ==
    (op = "host" /\ IsDottedQuad(text.v, arg)) =>
        /\ HostIPv4(text.v, arg).found
        /\ HostIPv4(text.v, arg).cur = stop

\* C26: a call of minio_uri_parse_into, minio_uri_parse or
\* minio_uri_parse_raw on a fresh record never passes to free a value that
\* was released before (the sentinel FREE leaves in the field), for any
\* text, and so never ends in the fault such a call may raise.
C26_NoReleaseOfReleased ==
    op \in {"parse_into", "parse", "parse_raw"} => bad = 0 /\ ~crashed

\* C27: minio_uri_parse_into returns the same status for a text whether it
\* is given a new record with cleanup 0 or no record; a call with the
\* record that does not return was given a text that is rejected without
\* one.
C27_SinkDoesNotChangeStatus ==
    /\ (op = "parse_into" /\ uri.cleanup = 0 /\ ~crashed) =>
           status = minio_uri_parse_into(Ctx(minio_uri_new, FALSE), text).ret
    /\ (op = "parse_into" /\ uri.cleanup = 0 /\ crashed) =>
           minio_uri_parse_into(Ctx(minio_uri_new, FALSE), text).ret # 0
    /\ (op = "validate" /\ uri.cleanup = 0) =>
           status = minio_uri_parse_into(Ctx(minio_uri_new, TRUE), text).ret

\* A text with an unwise byte in its fragment was given with a new record of
\* cleanup 0 and was rejected.
C27_Witness ==
    /\ op = "parse_into"
    /\ uri.cleanup = 0
    /\ ~crashed
    /\ text = Live(<<ch.a, ch.hash, ch.lbrace>>)
    /\ status = 1

\* The cursor of the NUL that ends the C string at the start of buf.
NulAt(buf) == Len(CStr(buf)) + 1

\* C28: no production matcher moves or reads past the terminating NUL.  The
\* cursor a matcher returns lies between the one it was given and the NUL,
\* and status and cursor are those for the same string with nothing after
\* its NUL; at every cursor up to the NUL a step of NEXT taken under a loop
\* test ends at or before the NUL, and the cur + 1 and cur + 2 reads of
\* pct-encoded, of dec-octet and of the "//" test are of cursors up to the
\* NUL.
C28_CursorWithinText ==
    op \in Matchers =>
        /\ stop \in arg..NulAt(text.v)
        /\ \A r \in {Production(op, Ctx(minio_uri_new, FALSE), CStr(text.v), arg)} :
               status = r.ret /\ stop = r.cur
        /\ \A p \in 1..NulAt(text.v) :
               /\ StepsWithNEXT(text.v, p) => NEXT(text.v, p) <= NulAt(text.v)
               /\ PctEncodedReads(text.v, p) \subseteq 1..NulAt(text.v)
               /\ DecOctetReads(text.v, p) \subseteq 1..NulAt(text.v)
               /\ DoubleSlashReads(text.v, p) \subseteq 1..NulAt(text.v)
               /\ minio_rfc3986_dec_octet(text.v, p).cur <= NulAt(text.v)

\* A matcher was given "%a" with bytes after its NUL that would complete the
\* escape, and stopped at the '%'.
C28_Witness ==
    /\ op = "segment_empty"
    /\ text = Live(<<ch.pct, ch.a, 0, ch.d5, ch.a>>)
    /\ arg = 1
    /\ stop = 1
    /\ status = 0


====
